---- MODULE Spec2Model ----
(***************************************************************************)
(* Model of the research pipeline of simple_graph.py (planner, fan-out of  *)
(* process_section tasks, list-concatenation reducer, final report) and of *)
(* the front ends that drive it: app.py (ainvoke with a progress callback  *)
(* that sends on the session's WebSocket), real_research_app.py (astream,  *)
(* no callback) and simple_example.py (ainvoke, no callback). SpecWS models *)
(* the WebSocket endpoints and the connection registry, SpecRegen the       *)
(* section regeneration of app.py and real_research_app.py, SpecDemo the    *)
(* background simulations of simple_web_demo.py.                            *)
(***************************************************************************)
EXTENDS Integers, Sequences, FiniteSets, TLC

\* Largest plan handed to route_to_section_processing in SpecK.
MaxK == 3

Topics == {"EV", "AI"}

\* The external collaborators (language model, search provider) answer each
\* request of a run once; a stub fixes what they answer.
Stubs == {1, 2}

SessionId == "s1"

NoSection == <<>>
NoReport == <<>>
NoError == "none"

\* The configurations under which the graph is run: the front end and what
\* config["configurable"]["progress_callback"] holds.
Configs ==
  { [frontend |-> "app",     callback |-> "manager"],
    [frontend |-> "real",    callback |-> "absent"],
    [frontend |-> "example", callback |-> "absent"],
    [frontend |-> "example", callback |-> "injected"] }

\* config["configurable"] as every front end of the repository writes it
\* (thread_id left out: nothing reads it)
DefaultConfigurable ==
  [model_provider |-> "openai", model_name |-> "gpt-4o",
   search_api |-> "tavily", number_of_queries_per_section |-> 3,
   max_results_per_query |-> 5]

\* the configurations a caller of simple_graph may supply
Configurables ==
  { DefaultConfigurable,
    [model_provider |-> "anthropic", model_name |-> "claude-3-5-sonnet",
     search_api |-> "duckduckgo", number_of_queries_per_section |-> 2,
     max_results_per_query |-> 10] }

NoConfigurable ==
  [model_provider |-> "-", model_name |-> "-", search_api |-> "-",
   number_of_queries_per_section |-> 0, max_results_per_query |-> 0]

VARIABLES
  frontend,            \* which front end drives the run
  configurable,        \* config["configurable"], the run configuration
  callback,            \* "absent" | "manager" | "injected"
  RESEARCH_AVAILABLE,  \* real_research_app.py import flag
  stub,                \* the responses of the model and the search provider
  active_connections,  \* ConnectionManager.active_connections: id -> socket
  last,                \* the most recent notification the run made
  count,               \* notifications made so far, per kind
  pc,                  \* position of the front end's coroutine
  node,                \* position of the graph run
  topic,               \* state["topic"]
  initial_sections,    \* state["initial_sections"]: sequence of entries
  section_results,     \* state["section_results"]
  final_report,        \* state["final_report"]
  tasks,               \* the dispatched process_section tasks
  settled,             \* indices of the tasks that returned, completion order
  exception,           \* the exception the graph run raised
  calls,               \* how often each node function was entered
  final_prompts,       \* the prompts generate_final_report sent to the model
  stream,              \* chunks astream has produced and the loop not yet taken
  local,               \* local variables of run_real_research
  sockets,             \* the WebSockets accepted so far, in the order accepted
  handlers,            \* websocket_endpoint coroutines, one per socket
  ops,                 \* the runs and regenerations the handlers started
  last_send            \* the send_update call of the latest step, if it made one

vars == << frontend, configurable, callback, RESEARCH_AVAILABLE, stub, active_connections,
           last, count, pc, node, topic, initial_sections, section_results,
           final_report, tasks, settled, exception, calls, final_prompts, stream, local,
           sockets, handlers, ops, last_send >>

\* the connections and their handlers
server_vars == << sockets, handlers, ops, last_send >>

\* what a graph run is given and leaves as it is: its configuration and the
\* connection handlers
config_vars == << frontend, configurable, callback, RESEARCH_AVAILABLE, stub,
                  topic, server_vars >>

-----------------------------------------------------------------------------
\* External collaborators.

SectionName(i) == <<"Section", i>>

\* structured_model.ainvoke(...): result.section_1, section_2, section_3
PlanResponse(s, t) ==
  IF s = 1
  THEN IF t = "EV" THEN <<"Market Overview", "Battery Tech", "Policy">>
                   ELSE <<"Models", "Safety", "Policy">>
  ELSE <<"Overview", "Overview", "Outlook">>

\* structured_query_model.ainvoke(...).queries
QueriesResponse(s, t, name, description) ==
  IF s = 1 THEN <<"q1", "q2", "q3">>
  ELSE IF name[2] % 2 = 1 THEN <<"q1">>
  ELSE <<"q1", "q2", "q3", "q4">>

\* select_and_execute_search("tavily", queries, {"max_results": 5})
SearchResponse(s, queries) ==
  IF s = 1 THEN [i \in 1..Len(queries) |-> <<"doc", queries[i]>>]
           ELSE <<>>

\* model.ainvoke(summary prompt).content
SummaryResponse(s, name, description, t, content) ==
  <<"summary", name, description, Len(content)>>

\* model.ainvoke(final prompt).content
FinalResponse(s, t, sections_text) == <<"report", t, sections_text>>

-----------------------------------------------------------------------------
\* Notifications.

NoDetails ==
  [section |-> NoSection, queries |-> <<>>, sections |-> <<>>,
   completed |-> 0, total |-> 0]

NoResult == [topic |-> "-", sections |-> <<>>, final_report |-> NoReport]

NoStep == "-"

Event(type, step, message, progress, details, result) ==
  [type |-> type, step |-> step, message |-> message, progress |-> progress,
   details |-> details, result |-> result, outcome |-> "pending"]

NoEvent == Event("none", NoStep, "", 0, NoDetails, NoResult)

Kinds ==
  {"initializing", "planning", "planning_complete", "query_generation",
   "researching", "writing", "finalizing", "complete", "error", "thinking",
   "regenerating", "section_complete"}

Kind(data) == IF data.type = "status" THEN data.step ELSE data.type

\* the notification data, with what became of it, is the latest one made
Record(st, data, outcome) ==
  [st EXCEPT !.last = [data EXCEPT !.outcome = outcome],
             !.count = [@ EXCEPT ![Kind(data)] = @ + 1]]

\* self.active_connections = {}
NoConnections == [s \in {} |-> 0]

\* ConnectionManager.connect, after websocket.accept()
connect(conns, websocket, session_id) ==
  [s \in DOMAIN conns \cup {session_id} |->
     IF s = session_id THEN websocket ELSE conns[s]]

\* ConnectionManager.disconnect
disconnect(conns, session_id) ==
  [s \in DOMAIN conns \ {session_id} |-> conns[s]]

\* send_update whose except clause leaves the registry as it is
SendUpdate_keeps_session(st, session_id, data, ok) ==
  IF session_id \in DOMAIN st.active
  THEN IF ok
       THEN Record(st, data, "sent")
       ELSE Record(st, data, "failed")
  ELSE Record(st, data, "skipped")

\* send_update without its try/except: a failed send_text raises
SendUpdate_unguarded(st, session_id, data, ok) ==
  IF session_id \in DOMAIN st.active
  THEN IF ok
       THEN Record(st, data, "sent")
       ELSE [Record(st, data, "failed") EXCEPT !.raised = TRUE]
  ELSE Record(st, data, "skipped")

\* ConnectionManager.send_update: st is [active, last, count, raised]; ok
\* tells whether send_text succeeds.
SendUpdate(st, session_id, data, ok) ==
  IF session_id \in DOMAIN st.active
  THEN IF ok
       THEN Record(st, data, "sent")
       ELSE [Record(st, data, "failed") EXCEPT !.active = disconnect(@, session_id)]
  ELSE Record(st, data, "skipped")

\* the callback looked up without the membership test: KeyError when absent
ProgressCallback_required(st, cb, step, message, progress, details, ok) ==
  LET data == Event("status", step, message, progress, details, NoResult)
  IN  CASE cb = "absent"   -> [st EXCEPT !.raised = TRUE]
        [] cb = "manager"  -> SendUpdate(st, SessionId, data, ok)
        [] cb = "injected" ->
             IF ok THEN Record(st, data, "returned")
             ELSE [Record(st, data, "raised") EXCEPT !.raised = TRUE]

\* if "progress_callback" in config["configurable"]: await callback(...)
ProgressCallback(st, cb, step, message, progress, details, ok) ==
  LET data == Event("status", step, message, progress, details, NoResult)
  IN  CASE cb = "absent"   -> st
        [] cb = "manager"  -> SendUpdate(st, SessionId, data, ok)
        [] cb = "injected" ->
             IF ok THEN Record(st, data, "returned")
             ELSE [Record(st, data, "raised") EXCEPT !.raised = TRUE]

Now ==
  [active |-> active_connections, last |-> last, count |-> count,
   raised |-> FALSE]

-----------------------------------------------------------------------------
\* Graph state and reducer.

\* a channel without reducer: the last write wins
add_overwrite(old, new) == new

\* a reducer that keeps what it has
add_keep_first(old, new) == IF old = <<>> THEN new ELSE old

\* operator.add on lists: the reducer of section_results
add(old, new) == old \o new

\* the external calls a task has made and, in returned, how many of them
\* have returned
NoCalls == [query |-> 0, search |-> 0, summary |-> 0]

\* every Send closes over the first entry's description
route_first_description(t, sections) ==
  [i \in 1..Len(sections) |->
     [topic |-> t,
      section_name |-> sections[i].name,
      section_description |-> sections[1].description,
      pc |-> "start", queries |-> <<>>, content |-> <<>>,
      writes |-> <<>>, err |-> NoError,
      calls |-> NoCalls, returned |-> 0,
      search_arg |-> <<>>, summary_arg |-> <<>>, uses |-> NoConfigurable,
      notified |-> <<>>]]

\* route_to_section_processing: one Send per entry of initial_sections
route_to_section_processing(t, sections) ==
  [i \in 1..Len(sections) |->
     [topic |-> t,
      section_name |-> sections[i].name,
      section_description |-> sections[i].description,
      pc |-> "start", queries |-> <<>>, content |-> <<>>,
      writes |-> <<>>, err |-> NoError,
      calls |-> NoCalls, returned |-> 0,
      search_arg |-> <<>>, summary_arg |-> <<>>, uses |-> NoConfigurable,
      notified |-> <<>>]]

\* the writes of the settled tasks, folded with the reducer in the order
\* the tasks returned
RECURSIVE ApplyWrites(_, _, _)
ApplyWrites(acc, order, ts) ==
  IF order = <<>> THEN acc
  ELSE ApplyWrites(add(acc, ts[Head(order)].writes), Tail(order), ts)

\* sections_text assigned, not appended to, in the loop
SectionsText_last_only(results) ==
  IF results = <<>> THEN <<>>
  ELSE << <<results[Len(results)].section_name,
            results[Len(results)].summary>> >>

\* sections_text of generate_final_report: "## name", summary per result
SectionsText(results) ==
  [i \in 1..Len(results) |-> <<results[i].section_name, results[i].summary>>]

NoSend == [session_id |-> "-", websocket |-> 0, outcome |-> "none",
           raised |-> FALSE, op |-> 0]

\* one connection, accepted under SessionId, whose handler awaits the run
OneConnection ==
  /\ sockets = << [session_id |-> SessionId, open |-> TRUE] >>
  /\ handlers = << [pc |-> "await", op |-> 0] >>
  /\ ops = <<>>
  /\ last_send = NoSend

EmptyLocal ==
  [current_progress |-> 0, sections_found |-> <<>>,
   section_queries |-> <<>>, section_summaries |-> <<>>]

-----------------------------------------------------------------------------
Init ==
  /\ \E c \in Configs : frontend = c.frontend /\ callback = c.callback
  /\ configurable \in Configurables
  /\ (callback # "injected" => configurable = DefaultConfigurable)
  /\ RESEARCH_AVAILABLE \in BOOLEAN
  /\ (frontend # "real" => RESEARCH_AVAILABLE)
  /\ stub \in Stubs
  /\ topic \in Topics
  /\ active_connections = connect(NoConnections, 1, SessionId)
  /\ last = NoEvent
  /\ count = [k \in Kinds |-> 0]
  /\ pc = "ready"
  /\ node = "idle"
  /\ initial_sections = <<>>
  /\ section_results = <<>>
  /\ final_report = NoReport
  /\ tasks = <<>>
  /\ settled = <<>>
  /\ exception = NoError
  /\ calls = [plan |-> 0, route |-> 0, final |-> 0]
  /\ final_prompts = <<>>
  /\ stream = <<>>
  /\ local = EmptyLocal
  /\ OneConnection

-----------------------------------------------------------------------------
\* The graph: START -> generate_initial_summary -> process_section (one task
\* per Send) -> generate_final_report -> END.

Notified(r) ==
  active_connections' = r.active /\ last' = r.last /\ count' = r.count

Silent == UNCHANGED << active_connections, last, count >>

Chunk(name, sections, results, report) ==
  [node |-> name, initial_sections |-> sections,
   section_results |-> results, final_report |-> report]

\* astream yields one chunk per finished node task; ainvoke yields none
Emit(chunk) ==
  stream' = IF frontend = "real" THEN Append(stream, chunk) ELSE stream

\* generate_initial_summary up to the structured model call
generate_initial_summary ==
  /\ pc = "running" /\ node = "START"
  /\ \E ok \in BOOLEAN :
       LET r == ProgressCallback(Now, callback, "planning",
                                 "Analyzing topic and creating research outline",
                                 10, NoDetails, ok)
       IN  /\ Notified(r)
           /\ IF r.raised
              THEN node' = "raised" /\ exception' = "CallbackError"
              ELSE node' = "plan_wait" /\ exception' = exception
  /\ calls' = [calls EXCEPT !.plan = @ + 1]
  /\ UNCHANGED << config_vars, pc, initial_sections, section_results,
                  final_report, tasks, settled, final_prompts, stream, local >>

\* a dictionary literal that repeats a key: the last entry replaces the second
InitialSectionsOf_repeated_key(result) ==
  << [name |-> SectionName(1), description |-> result[1]],
     [name |-> SectionName(2), description |-> result[3]] >>

\* section_3 stored under 'Section 2' and section_2 under 'Section 3'
InitialSectionsOf_swapped(result) ==
  << [name |-> SectionName(1), description |-> result[1]],
     [name |-> SectionName(2), description |-> result[3]],
     [name |-> SectionName(3), description |-> result[2]] >>

\* the dictionary built from the structured result
InitialSectionsOf(result) ==
  << [name |-> SectionName(1), description |-> result[1]],
     [name |-> SectionName(2), description |-> result[2]],
     [name |-> SectionName(3), description |-> result[3]] >>

\* 'planning_complete' notified whether or not the model call succeeded
generate_initial_summary_resume_always_notify ==
  /\ node = "plan_wait"
  /\ \E model_ok, ok \in BOOLEAN :
       LET sections == IF model_ok
                       THEN InitialSectionsOf(PlanResponse(stub, topic))
                       ELSE <<>>
           r == ProgressCallback(Now, callback, "planning_complete",
                                 "Research outline created with 3 sections",
                                 25, [NoDetails EXCEPT !.sections = sections],
                                 ok)
       IN  /\ Notified(r)
           /\ IF ~model_ok
              THEN /\ node' = "raised" /\ exception' = "GenerationError"
                   /\ UNCHANGED << initial_sections, stream >>
              ELSE IF r.raised
                   THEN /\ node' = "raised" /\ exception' = "CallbackError"
                        /\ UNCHANGED << initial_sections, stream >>
                   ELSE /\ node' = "planned" /\ exception' = exception
                        /\ initial_sections' = sections
                        /\ Emit(Chunk("generate_initial_summary", sections,
                                      <<>>, NoReport))
  /\ UNCHANGED << config_vars, pc, section_results, final_report, tasks,
                  settled, calls, final_prompts, local >>

\* generate_initial_summary from the return of the model call
generate_initial_summary_resume ==
  /\ node = "plan_wait"
  /\ \E model_ok, ok \in BOOLEAN :
       IF ~model_ok
       THEN /\ node' = "raised" /\ exception' = "GenerationError"
            /\ Silent /\ UNCHANGED << initial_sections, stream >>
       ELSE LET sections == InitialSectionsOf(PlanResponse(stub, topic))
                r == ProgressCallback(Now, callback, "planning_complete",
                                      "Research outline created with 3 sections",
                                      25, [NoDetails EXCEPT !.sections = sections],
                                      ok)
            IN  /\ Notified(r)
                /\ IF r.raised
                   THEN /\ node' = "raised" /\ exception' = "CallbackError"
                        /\ UNCHANGED << initial_sections, stream >>
                   ELSE /\ node' = "planned" /\ exception' = exception
                        /\ initial_sections' = sections
                        /\ Emit(Chunk("generate_initial_summary", sections,
                                      <<>>, NoReport))
  /\ UNCHANGED << config_vars, pc, section_results, final_report, tasks,
                  settled, calls, final_prompts, local >>

\* the conditional edge after generate_initial_summary
dispatch ==
  /\ pc = "running" /\ node = "planned"
  /\ tasks' = route_to_section_processing(topic, initial_sections)
  /\ node' = "processing"
  /\ calls' = [calls EXCEPT !.route = @ + 1]
  /\ UNCHANGED << config_vars, active_connections, last, count, pc, initial_sections,
                  section_results, final_report, settled, exception,
                  final_prompts, stream, local >>

TaskFrame ==
  UNCHANGED << config_vars, pc, node, initial_sections, section_results,
               final_report, exception, calls, final_prompts, local >>

Failed(i, kind) == tasks' = [tasks EXCEPT ![i].pc = "failed", ![i].err = kind]

\* the invocations of the progress callback a task has made, r being the
\* outcome of the one it makes now: step and details of each
Checkpoints(t, r) ==
  IF callback = "absent" THEN t.notified
  ELSE Append(t.notified, [step |-> r.last.step, details |-> r.last.details])

\* the details of 'researching' without the queries
ResearchingDetails_no_queries(section_name, queries) ==
  [NoDetails EXCEPT !.section = section_name]

\* {"section_name": section_name, "queries": queries}
ResearchingDetails(section_name, queries) ==
  [NoDetails EXCEPT !.section = section_name, !.queries = queries]

\* process_section up to the query-generation call
\* the model, the search provider and the sizes process_section works with:
\* init_chat_model(model="gpt-4o", model_provider="openai"), the prompt's
\* "Generate 3 ... search queries", select_and_execute_search("tavily", ...,
\* {"max_results": 5}); config["configurable"] is read for progress_callback
\* only
TaskConfiguration(config) ==
  [model_provider |-> "openai", model_name |-> "gpt-4o",
   search_api |-> "tavily", number_of_queries_per_section |-> 3,
   max_results_per_query |-> 5]

process_section(i) ==
  /\ tasks[i].pc = "start"
  /\ \E ok \in BOOLEAN :
       LET r == ProgressCallback(Now, callback, "query_generation",
                                 "Generating search queries for section", 35,
                                 [NoDetails EXCEPT !.section = tasks[i].section_name],
                                 ok)
       IN  /\ Notified(r)
           /\ IF r.raised
              THEN tasks' = [tasks EXCEPT ![i].pc = "failed",
                                          ![i].err = "CallbackError",
                                          ![i].notified = Checkpoints(tasks[i], r)]
              ELSE tasks' = [tasks EXCEPT ![i].pc = "qgen",
                                          ![i].notified = Checkpoints(tasks[i], r),
                                          ![i].calls.query = @ + 1,
                                          ![i].uses = TaskConfiguration(configurable)]
  /\ UNCHANGED << settled, stream >>
  /\ TaskFrame

\* only the first three queries are searched
SearchArgs_first_three(queries) ==
  [k \in 1..(IF Len(queries) < 3 THEN Len(queries) ELSE 3) |-> queries[k]]

\* the queries handed to select_and_execute_search
SearchArgs(queries) == queries

\* the generated queries kept in one list that all invocations extend
process_section_queries_shared(i) ==
  /\ tasks[i].pc = "qgen"
  /\ \E model_ok, ok \in BOOLEAN :
       IF ~model_ok
       THEN Failed(i, "GenerationError") /\ Silent
       ELSE LET shared == IF \E j \in DOMAIN tasks : tasks[j].returned >= 1
                          THEN tasks[CHOOSE j \in DOMAIN tasks :
                                        tasks[j].returned >= 1].queries
                          ELSE <<>>
                queries == shared \o QueriesResponse(stub, tasks[i].topic,
                                                     tasks[i].section_name,
                                                     tasks[i].section_description)
                r == ProgressCallback(Now, callback, "researching",
                                      "Conducting web searches for section", 50,
                                      ResearchingDetails(tasks[i].section_name,
                                                         queries),
                                      ok)
            IN  /\ Notified(r)
                /\ IF r.raised
                   THEN tasks' = [tasks EXCEPT ![i].pc = "failed",
                                               ![i].err = "CallbackError",
                                               ![i].notified = Checkpoints(tasks[i], r),
                                               ![i].queries = queries,
                                               ![i].returned = 1]
                   ELSE tasks' = [tasks EXCEPT ![i].pc = "search",
                                               ![i].notified = Checkpoints(tasks[i], r),
                                               ![i].queries = queries,
                                               ![i].returned = 1,
                                               ![i].calls.search = @ + 1,
                                               ![i].search_arg =
                                                  SearchArgs(queries)]
  /\ UNCHANGED << settled, stream >>
  /\ TaskFrame

\* process_section from the return of the query-generation call to the search
process_section_queries(i) ==
  /\ tasks[i].pc = "qgen"
  /\ \E model_ok, ok \in BOOLEAN :
       IF ~model_ok
       THEN Failed(i, "GenerationError") /\ Silent
       ELSE LET queries == QueriesResponse(stub, tasks[i].topic,
                                           tasks[i].section_name,
                                           tasks[i].section_description)
                r == ProgressCallback(Now, callback, "researching",
                                      "Conducting web searches for section", 50,
                                      ResearchingDetails(tasks[i].section_name,
                                                         queries),
                                      ok)
            IN  /\ Notified(r)
                /\ IF r.raised
                   THEN tasks' = [tasks EXCEPT ![i].pc = "failed",
                                               ![i].err = "CallbackError",
                                               ![i].notified = Checkpoints(tasks[i], r),
                                               ![i].queries = queries,
                                               ![i].returned = 1]
                   ELSE tasks' = [tasks EXCEPT ![i].pc = "search",
                                               ![i].notified = Checkpoints(tasks[i], r),
                                               ![i].queries = queries,
                                               ![i].returned = 1,
                                               ![i].calls.search = @ + 1,
                                               ![i].search_arg =
                                                  SearchArgs(queries)]
  /\ UNCHANGED << settled, stream >>
  /\ TaskFrame

\* the search wrapped in try/except: a failed search counts as an empty corpus
process_section_search_caught(i) ==
  /\ tasks[i].pc = "search"
  /\ \E search_ok, ok \in BOOLEAN :
       LET content == IF search_ok
                      THEN SearchResponse(stub, tasks[i].search_arg) ELSE <<>>
           r == ProgressCallback(Now, callback, "writing",
                                 "Writing detailed summary for section", 75,
                                 [NoDetails EXCEPT !.section = tasks[i].section_name],
                                 ok)
       IN  /\ Notified(r)
           /\ IF r.raised
              THEN tasks' = [tasks EXCEPT ![i].pc = "failed",
                                          ![i].err = "CallbackError",
                                          ![i].notified = Checkpoints(tasks[i], r),
                                          ![i].content = content,
                                          ![i].returned =
                                             IF search_ok THEN 2 ELSE 1]
              ELSE tasks' = [tasks EXCEPT ![i].pc = "summ",
                                          ![i].notified = Checkpoints(tasks[i], r),
                                          ![i].content = content,
                                          ![i].returned =
                                             IF search_ok THEN 2 ELSE 1,
                                          ![i].calls.summary = @ + 1,
                                          ![i].summary_arg = content]
  /\ UNCHANGED << settled, stream >>
  /\ TaskFrame

\* an empty search result rejected: the task raises instead of summarizing
process_section_search_nonempty(i) ==
  /\ tasks[i].pc = "search"
  /\ \E search_ok, ok \in BOOLEAN :
       IF ~search_ok
       THEN Failed(i, "SearchError") /\ Silent
       ELSE LET content == SearchResponse(stub, tasks[i].search_arg)
                r == ProgressCallback(Now, callback, "writing",
                                      "Writing detailed summary for section", 75,
                                      [NoDetails EXCEPT !.section = tasks[i].section_name],
                                      ok)
            IN  IF content = <<>>
                THEN /\ Silent
                     /\ tasks' = [tasks EXCEPT ![i].pc = "failed",
                                               ![i].err = "ValueError",
                                               ![i].content = content,
                                               ![i].returned = 2]
                ELSE /\ Notified(r)
                     /\ IF r.raised
                        THEN tasks' = [tasks EXCEPT ![i].pc = "failed",
                                                    ![i].err = "CallbackError",
                                                    ![i].notified = Checkpoints(tasks[i], r),
                                                    ![i].content = content,
                                                    ![i].returned = 2]
                        ELSE tasks' = [tasks EXCEPT ![i].pc = "summ",
                                                    ![i].notified = Checkpoints(tasks[i], r),
                                                    ![i].content = content,
                                                    ![i].returned = 2,
                                                    ![i].calls.summary = @ + 1,
                                                    ![i].summary_arg = content]
  /\ UNCHANGED << settled, stream >>
  /\ TaskFrame

\* process_section from the return of the search to the summarization call
process_section_search(i) ==
  /\ tasks[i].pc = "search"
  /\ \E search_ok, ok \in BOOLEAN :
       IF ~search_ok
       THEN Failed(i, "SearchError") /\ Silent
       ELSE LET content == SearchResponse(stub, tasks[i].search_arg)
                r == ProgressCallback(Now, callback, "writing",
                                      "Writing detailed summary for section", 75,
                                      [NoDetails EXCEPT !.section = tasks[i].section_name],
                                      ok)
            IN  /\ Notified(r)
                /\ IF r.raised
                   THEN tasks' = [tasks EXCEPT ![i].pc = "failed",
                                               ![i].err = "CallbackError",
                                               ![i].notified = Checkpoints(tasks[i], r),
                                               ![i].content = content,
                                               ![i].returned = 2]
                   ELSE tasks' = [tasks EXCEPT ![i].pc = "summ",
                                               ![i].notified = Checkpoints(tasks[i], r),
                                               ![i].content = content,
                                               ![i].returned = 2,
                                               ![i].calls.summary = @ + 1,
                                               ![i].summary_arg = content]
  /\ UNCHANGED << settled, stream >>
  /\ TaskFrame

\* the result built without the retrieved content
SectionResult_no_content(task, summary) ==
  [section_name |-> task.section_name, queries |-> task.queries,
   content |-> <<>>, summary |-> summary]

\* section_result of process_section
SectionResult(task, summary) ==
  [section_name |-> task.section_name, queries |-> task.queries,
   content |-> task.content, summary |-> summary]

\* process_section from the return of the summarization call to its return
process_section_summary(i) ==
  /\ tasks[i].pc = "summ"
  /\ \E model_ok \in BOOLEAN :
       IF ~model_ok
       THEN Failed(i, "GenerationError") /\ UNCHANGED << settled, stream >>
       ELSE LET section_result ==
                  SectionResult(tasks[i],
                                SummaryResponse(stub, tasks[i].section_name,
                                                tasks[i].section_description,
                                                tasks[i].topic,
                                                tasks[i].summary_arg))
            IN  /\ tasks' = [tasks EXCEPT ![i].pc = "done",
                                          ![i].returned = 3,
                                          ![i].writes = <<section_result>>]
                /\ settled' = Append(settled, i)
                /\ Emit(Chunk("process_section", <<>>, <<section_result>>,
                              NoReport))
  /\ Silent
  /\ TaskFrame

Settled(t) == t.pc \in {"done", "failed"}

\* the exception leaves the graph run and the sibling tasks are left running
propagate_failure_abandon ==
  /\ pc = "running" /\ node = "processing"
  /\ \E i \in DOMAIN tasks :
       /\ tasks[i].pc = "failed"
       /\ exception' = tasks[i].err
  /\ node' = "raised"
  /\ UNCHANGED << config_vars, active_connections, last, count, pc,
                  initial_sections, section_results, final_report, tasks,
                  settled, calls, final_prompts, stream, local >>

\* a failed task fails the step: the tasks still running are cancelled and
\* the exception leaves the graph run
propagate_failure ==
  /\ pc = "running" /\ node = "processing"
  /\ \E i \in DOMAIN tasks :
       /\ tasks[i].pc = "failed"
       /\ exception' = tasks[i].err
  /\ tasks' = [i \in DOMAIN tasks |->
                 IF Settled(tasks[i]) THEN tasks[i]
                 ELSE [tasks[i] EXCEPT !.pc = "cancelled"]]
  /\ node' = "raised"
  /\ UNCHANGED << config_vars, active_connections, last, count, pc, initial_sections,
                  section_results, final_report, settled, calls, final_prompts, stream, local >>

\* generate_final_report triggered by the first task that returns
fan_in_any ==
  /\ pc = "running" /\ node = "processing"
  /\ \E i \in DOMAIN tasks : tasks[i].pc = "done"
  /\ section_results' = ApplyWrites(section_results, settled, tasks)
  /\ node' = "joined"
  /\ UNCHANGED << config_vars, active_connections, last, count, pc,
                  initial_sections, final_report, tasks, settled, exception,
                  calls, final_prompts, stream, local >>

\* failed tasks tolerated: the report is compiled from the tasks that returned
fan_in_settled ==
  /\ pc = "running" /\ node = "processing"
  /\ tasks # <<>>
  /\ \A i \in DOMAIN tasks : tasks[i].pc \in {"done", "failed"}
  /\ section_results' = ApplyWrites(section_results, settled, tasks)
  /\ node' = "joined"
  /\ UNCHANGED << config_vars, active_connections, last, count, pc,
                  initial_sections, final_report, tasks, settled, exception,
                  calls, final_prompts, stream, local >>

\* the edge process_section -> generate_final_report: every task has
\* returned; their writes are merged into section_results by the reducer
fan_in ==
  /\ pc = "running" /\ node = "processing"
  /\ \A i \in DOMAIN tasks : tasks[i].pc = "done"
  /\ section_results' = ApplyWrites(section_results, settled, tasks)
  /\ node' = "joined"
  /\ UNCHANGED << config_vars, active_connections, last, count, pc, initial_sections,
                  final_report, tasks, settled, exception, calls, final_prompts, stream, local >>

\* generate_final_report without its progress notification
generate_final_report_silent ==
  /\ pc = "running" /\ node = "joined"
  /\ Silent
  /\ node' = "final_wait" /\ exception' = exception
  /\ final_prompts' =
       Append(final_prompts,
              [topic |-> topic, sections_text |-> SectionsText(section_results)])
  /\ calls' = [calls EXCEPT !.final = @ + 1]
  /\ UNCHANGED << config_vars, pc, initial_sections, section_results,
                  final_report, tasks, settled, stream, local >>

\* generate_final_report up to the model call: the callback, then the prompt
\* built from section_results and handed to model.ainvoke
generate_final_report ==
  /\ pc = "running" /\ node = "joined"
  /\ \E ok \in BOOLEAN :
       LET r == ProgressCallback(Now, callback, "finalizing",
                                 "Compiling final report", 90, NoDetails, ok)
           user_prompt == [topic |-> topic,
                           sections_text |-> SectionsText(section_results)]
       IN  /\ Notified(r)
           /\ IF r.raised
              THEN /\ node' = "raised" /\ exception' = "CallbackError"
                   /\ UNCHANGED final_prompts
              ELSE /\ node' = "final_wait" /\ exception' = exception
                   /\ final_prompts' = Append(final_prompts, user_prompt)
  /\ calls' = [calls EXCEPT !.final = @ + 1]
  /\ UNCHANGED << config_vars, pc, initial_sections, section_results,
                  final_report, tasks, settled, stream, local >>

\* an edge from generate_final_report back to the fan-out instead of END
generate_final_report_loop ==
  /\ node = "final_wait"
  /\ \E model_ok \in BOOLEAN :
       IF ~model_ok
       THEN /\ node' = "raised" /\ exception' = "GenerationError"
            /\ UNCHANGED << final_report, stream >>
       ELSE LET user_prompt == final_prompts[Len(final_prompts)]
                report == FinalResponse(stub, user_prompt.topic,
                                        user_prompt.sections_text)
            IN  /\ final_report' = report
                /\ node' = "planned" /\ exception' = exception
                /\ Emit(Chunk("generate_final_report", <<>>, <<>>, report))
  /\ UNCHANGED << config_vars, active_connections, last, count, pc,
                  initial_sections, section_results, tasks, settled, calls, final_prompts,
                  local >>

\* generate_final_report from the return of the model call
generate_final_report_resume ==
  /\ node = "final_wait"
  /\ \E model_ok \in BOOLEAN :
       IF ~model_ok
       THEN /\ node' = "raised" /\ exception' = "GenerationError"
            /\ UNCHANGED << final_report, stream >>
       ELSE LET user_prompt == final_prompts[Len(final_prompts)]
                report == FinalResponse(stub, user_prompt.topic,
                                        user_prompt.sections_text)
            IN  /\ final_report' = report
                /\ node' = "END" /\ exception' = exception
                /\ Emit(Chunk("generate_final_report", <<>>, <<>>, report))
  /\ UNCHANGED << config_vars, active_connections, last, count, pc, initial_sections,
                  section_results, tasks, settled, calls, final_prompts, local >>

-----------------------------------------------------------------------------
\* app.py: run_research_with_updates

\* the 'initializing' send
run_research_with_updates ==
  /\ frontend = "app" /\ pc = "ready"
  /\ \E ok \in BOOLEAN :
       Notified(SendUpdate(Now, SessionId,
                           Event("status", "initializing",
                                 <<"Starting research on", topic>>, 0,
                                 NoDetails, NoResult), ok))
  /\ pc' = "configured"
  /\ UNCHANGED << config_vars, node, initial_sections, section_results,
                  final_report, tasks, settled, exception, calls, final_prompts, stream, local >>

\* the 'planning' send, then simple_graph.ainvoke with the callback
run_research_with_updates_invoke ==
  /\ frontend = "app" /\ pc = "configured"
  /\ \E ok \in BOOLEAN :
       Notified(SendUpdate(Now, SessionId,
                           Event("status", "planning",
                                 "Analyzing topic and creating research outline",
                                 10, NoDetails, NoResult), ok))
  /\ pc' = "running" /\ node' = "START"
  /\ UNCHANGED << config_vars, initial_sections, section_results, final_report,
                  tasks, settled, exception, calls, final_prompts, stream, local >>

\* the sections of the terminal result without their queries
ResultSections_no_queries(results) ==
  [i \in 1..Len(results) |->
     [name |-> results[i].section_name, queries |-> <<>>,
      summary |-> results[i].summary]]

\* the sections of the terminal result, built from result["section_results"]
ResultSections(results) ==
  [i \in 1..Len(results) |->
     [name |-> results[i].section_name, queries |-> results[i].queries,
      summary |-> results[i].summary]]

\* after ainvoke returned: the 'complete' send
run_research_with_updates_complete ==
  /\ frontend = "app" /\ pc = "running" /\ node = "END"
  /\ \E ok \in BOOLEAN :
       Notified(SendUpdate(Now, SessionId,
                           Event("complete", "complete",
                                 "Research completed successfully!", 100,
                                 NoDetails,
                                 [topic |-> topic,
                                  sections |-> ResultSections(section_results),
                                  final_report |-> final_report]), ok))
  /\ pc' = "done"
  /\ UNCHANGED << config_vars, node, initial_sections, section_results,
                  final_report, tasks, settled, exception, calls, final_prompts, stream, local >>

\* no except clause: the exception leaves run_research_with_updates
run_research_with_updates_uncaught ==
  /\ frontend = "app" /\ pc = "running" /\ node = "raised"
  /\ Silent
  /\ pc' = "crashed"
  /\ UNCHANGED << config_vars, node, initial_sections, section_results,
                  final_report, tasks, settled, exception, calls, final_prompts,
                  stream, local >>

\* except Exception as e: the 'error' send
run_research_with_updates_except ==
  /\ frontend = "app" /\ pc = "running" /\ node = "raised"
  /\ \E ok \in BOOLEAN :
       Notified(SendUpdate(Now, SessionId,
                           Event("error", NoStep,
                                 <<"Error during research", exception>>, 0,
                                 NoDetails, NoResult), ok))
  /\ pc' = "error"
  /\ UNCHANGED << config_vars, node, initial_sections, section_results,
                  final_report, tasks, settled, exception, calls, final_prompts, stream, local >>

-----------------------------------------------------------------------------
\* real_research_app.py: run_real_research

Get(d, k, default) == IF k \in DOMAIN d THEN d[k] ELSE default

Put(d, k, v) == (k :> v) @@ d

\* from entry to the call of simple_graph.astream
run_real_research ==
  /\ frontend = "real" /\ pc = "ready"
  /\ \E ok \in BOOLEAN :
       IF ~RESEARCH_AVAILABLE
       THEN /\ Notified(SendUpdate(Now, SessionId,
                                   Event("error", NoStep,
                                         "Research modules not available", 0,
                                         NoDetails, NoResult), ok))
            /\ pc' = "error"
            /\ UNCHANGED << node, local >>
       ELSE /\ Notified(SendUpdate(Now, SessionId,
                                   Event("status", "initializing",
                                         <<"Starting AI analysis on", topic>>, 5,
                                         NoDetails, NoResult), ok))
            /\ pc' = "running" /\ node' = "START"
            /\ local' = [EmptyLocal EXCEPT !.current_progress = 5]
  /\ UNCHANGED << config_vars, initial_sections, section_results, final_report,
                  tasks, settled, exception, calls, final_prompts, stream >>

\* the result of the 'complete' send, from the plan's keys and the maps
StreamedSections(l) ==
  [i \in 1..Len(l.sections_found) |->
     [name |-> l.sections_found[i].name,
      queries |-> Get(l.section_queries, l.sections_found[i].name, <<>>),
      summary |-> Get(l.section_summaries, l.sections_found[i].name, <<>>)]]

\* the share of completed sections taken as the progress itself
SectionProgress_share_only(completed_sections, total_sections) ==
  (completed_sections * 100) \div total_sections

\* current_progress = 20 + (completed_sections * 50 // total_sections)
SectionProgress(completed_sections, total_sections) ==
  20 + ((completed_sections * 50) \div total_sections)

\* one iteration of the async for loop, up to its first send
run_real_research_chunk ==
  /\ frontend = "real" /\ pc = "running" /\ stream # <<>>
  /\ LET chunk == Head(stream)
     IN  \E ok \in BOOLEAN :
         CASE chunk.node = "generate_initial_summary" ->
                LET sections == chunk.initial_sections
                IN  /\ Notified(SendUpdate(Now, SessionId,
                            Event("status", "planning",
                                  <<"Analysis plan created", Len(sections)>>, 20,
                                  [NoDetails EXCEPT !.sections = sections],
                                  NoResult), ok))
                    /\ local' = [local EXCEPT !.current_progress = 20,
                                              !.sections_found = sections]
                    /\ pc' = "thinking"
           [] chunk.node = "process_section" ->
                IF chunk.section_results = <<>>
                THEN Silent /\ UNCHANGED local /\ pc' = "next"
                ELSE
                LET section_result == chunk.section_results[1]
                    section_name == section_result.section_name
                    queries == section_result.queries
                    summaries == Put(local.section_summaries, section_name,
                                     section_result.summary)
                    completed_sections == Cardinality(DOMAIN summaries)
                    total_sections ==
                      IF local.sections_found # <<>>
                      THEN Len(local.sections_found) ELSE 3
                    progress == SectionProgress(completed_sections,
                                                total_sections)
                IN  /\ Notified(SendUpdate(Now, SessionId,
                            Event("status", "researching",
                                  <<"Completed analysis for", section_name>>,
                                  progress,
                                  [NoDetails EXCEPT !.section = section_name,
                                                    !.queries = queries,
                                                    !.completed = completed_sections,
                                                    !.total = total_sections],
                                  NoResult), ok))
                    /\ local' = [local EXCEPT
                                   !.current_progress = progress,
                                   !.section_queries =
                                      Put(@, section_name, queries),
                                   !.section_summaries = summaries]
                    /\ pc' = "thinking"
           [] chunk.node = "generate_final_report" ->
                /\ Notified(SendUpdate(Now, SessionId,
                            Event("status", "finalizing",
                                  "Compiling comprehensive analysis report", 90,
                                  NoDetails, NoResult), ok))
                /\ local' = [local EXCEPT !.current_progress = 90]
                /\ pc' = "thinking"
  /\ UNCHANGED << config_vars, node, initial_sections, section_results,
                  final_report, tasks, settled, exception, calls, final_prompts, stream >>

\* the 'thinking' send of the iteration
run_real_research_thinking ==
  /\ frontend = "real" /\ pc = "thinking"
  /\ LET chunk == Head(stream)
         message ==
           CASE chunk.node = "generate_initial_summary" -> "Planning approach"
             [] chunk.node = "process_section" ->
                  <<"Deep diving into", chunk.section_results[1].section_name>>
             [] chunk.node = "generate_final_report" ->
                  "Synthesizing Analysis Findings"
     IN  /\ \E ok \in BOOLEAN :
              Notified(SendUpdate(Now, SessionId,
                                  Event("thinking", NoStep, message,
                                        local.current_progress, NoDetails,
                                        NoResult), ok))
         /\ pc' = IF chunk.node = "generate_final_report"
                  THEN "completing" ELSE "next"
  /\ UNCHANGED << config_vars, node, initial_sections, section_results,
                  final_report, tasks, settled, exception, calls, final_prompts, stream, local >>

\* the 'complete' send of the iteration that takes the final report
run_real_research_complete ==
  /\ frontend = "real" /\ pc = "completing"
  /\ \E ok \in BOOLEAN :
       Notified(SendUpdate(Now, SessionId,
                           Event("complete", "complete",
                                 "AI Analysis completed successfully!", 100,
                                 NoDetails,
                                 [topic |-> topic,
                                  sections |-> StreamedSections(local),
                                  final_report |-> Head(stream).final_report]),
                           ok))
  /\ pc' = "next"
  /\ UNCHANGED << config_vars, node, initial_sections, section_results,
                  final_report, tasks, settled, exception, calls, final_prompts, stream, local >>

\* the iteration is over: the loop asks astream for the next chunk
run_real_research_next ==
  /\ frontend = "real" /\ pc = "next"
  /\ pc' = "running"
  /\ stream' = Tail(stream)
  /\ UNCHANGED << config_vars, active_connections, last, count, node,
                  initial_sections, section_results, final_report, tasks,
                  settled, exception, calls, final_prompts, local >>

\* the stream is exhausted: the loop and the function end
run_real_research_end ==
  /\ frontend = "real" /\ pc = "running" /\ node = "END" /\ stream = <<>>
  /\ pc' = "done"
  /\ UNCHANGED << config_vars, active_connections, last, count, node, initial_sections,
                  section_results, final_report, tasks, settled, exception,
                  calls, final_prompts, stream, local >>

\* except Exception as e: astream raised
run_real_research_except ==
  /\ frontend = "real" /\ pc = "running" /\ node = "raised"
  /\ \E ok \in BOOLEAN :
       Notified(SendUpdate(Now, SessionId,
                           Event("error", NoStep,
                                 <<"Research error", exception>>, 0,
                                 NoDetails, NoResult), ok))
  /\ pc' = "error"
  /\ stream' = <<>>
  /\ UNCHANGED << config_vars, node, initial_sections, section_results,
                  final_report, tasks, settled, exception, calls, final_prompts, local >>

-----------------------------------------------------------------------------
\* simple_example.py: run_simple_research, and any caller that runs the graph
\* with its own configurable

run_simple_research ==
  /\ frontend = "example" /\ pc = "ready"
  /\ pc' = "running" /\ node' = "START"
  /\ UNCHANGED << config_vars, active_connections, last, count, initial_sections,
                  section_results, final_report, tasks, settled, exception,
                  calls, final_prompts, stream, local >>

\* ainvoke returned, the result is printed and returned; or ainvoke raised
\* and the exception leaves run_simple_research
run_simple_research_return ==
  /\ frontend = "example" /\ pc = "running" /\ node \in {"END", "raised"}
  /\ pc' = IF node = "END" THEN "done" ELSE "crashed"
  /\ UNCHANGED << config_vars, active_connections, last, count, node, initial_sections,
                  section_results, final_report, tasks, settled, exception,
                  calls, final_prompts, stream, local >>

-----------------------------------------------------------------------------
GraphNext ==
  \/ dispatch
  \/ \E i \in DOMAIN tasks : process_section(i)
  \/ \E i \in DOMAIN tasks : process_section_queries(i)
  \/ \E i \in DOMAIN tasks : process_section_search(i)
  \/ \E i \in DOMAIN tasks : process_section_summary(i)
  \/ propagate_failure
  \/ fan_in
  \/ generate_final_report
  \/ generate_final_report_resume

Next ==
  \/ run_research_with_updates
  \/ run_research_with_updates_invoke
  \/ run_research_with_updates_complete
  \/ run_research_with_updates_except
  \/ run_real_research
  \/ run_real_research_chunk
  \/ run_real_research_thinking
  \/ run_real_research_complete
  \/ run_real_research_next
  \/ run_real_research_end
  \/ run_real_research_except
  \/ run_simple_research
  \/ run_simple_research_return
  \/ generate_initial_summary
  \/ generate_initial_summary_resume
  \/ GraphNext

Spec == Init /\ [][Next]_vars

\* The event loop resumes every coroutine that can go on, and every call to
\* the model or the search provider returns or raises in the end: a step that
\* stays possible is taken.
FairSpec == Spec /\ WF_vars(Next)

-----------------------------------------------------------------------------
\* The graph from the conditional edge on, for a planner that returned a plan
\* of any size: the state route_to_section_processing is given holds K entries.

PlanOfSize(k) ==
  [i \in 1..k |-> [name |-> SectionName(i), description |-> <<"about", i>>]]

InitK ==
  /\ frontend = "example"
  /\ callback \in {"absent", "injected"}
  /\ configurable \in Configurables
  /\ (callback # "injected" => configurable = DefaultConfigurable)
  /\ RESEARCH_AVAILABLE = TRUE
  /\ stub \in Stubs
  /\ topic \in Topics
  /\ active_connections = connect(NoConnections, 1, SessionId)
  /\ last = NoEvent
  /\ count = [k \in Kinds |-> 0]
  /\ pc = "running"
  /\ node = "planned"
  /\ \E k \in 1..MaxK : initial_sections = PlanOfSize(k)
  /\ section_results = <<>>
  /\ final_report = NoReport
  /\ tasks = <<>>
  /\ settled = <<>>
  /\ exception = NoError
  /\ calls = [plan |-> 1, route |-> 0, final |-> 0]
  /\ final_prompts = <<>>
  /\ stream = <<>>
  /\ local = EmptyLocal
  /\ OneConnection

NextK == GraphNext \/ run_simple_research_return

SpecK == InitK /\ [][NextK]_vars

-----------------------------------------------------------------------------
\* The WebSocket endpoints of app.py, real_research_app.py and
\* simple_web_demo.py: the connections, their handlers and the registry. A
\* handler is seen with the run or the regeneration it awaits reduced to
\* what it does to the registry: it calls send_update for the handler's
\* session id, any number of times, and returns.

\* WebSockets that connect.
MaxConn == 2

\* Requests the clients send, over all connections.
MaxMsgs == 2

\* the ids the clients put in the path /ws/{session_id}
SessionIds == {"s1", "s2"}

\* what receive_text returns: the two requests, text that is no JSON, an
\* object without 'type', a start_research without 'topic', a
\* regenerate_section without its fields, a message of another type
Messages ==
  {"start_research", "regenerate_section", "malformed", "no_type",
   "no_topic", "no_fields", "other"}

run_vars ==
  << frontend, configurable, callback, RESEARCH_AVAILABLE, stub, topic, last,
     count, pc, node, initial_sections, section_results, final_report, tasks,
     settled, exception, calls, final_prompts, stream, local >>

\* no graph run is modelled
NoRun ==
  /\ configurable = DefaultConfigurable
  /\ callback = (IF frontend = "app" THEN "manager" ELSE "absent")
  /\ stub = 1
  /\ topic = "EV"
  /\ last = NoEvent
  /\ count = [k \in Kinds |-> 0]
  /\ pc = "ready"
  /\ node = "idle"
  /\ initial_sections = <<>>
  /\ section_results = <<>>
  /\ final_report = NoReport
  /\ tasks = <<>>
  /\ settled = <<>>
  /\ exception = NoError
  /\ calls = [plan |-> 0, route |-> 0, final |-> 0]
  /\ final_prompts = <<>>
  /\ stream = <<>>
  /\ local = EmptyLocal

\* the server has started: no connection yet
Serving ==
  /\ NoRun
  /\ active_connections = NoConnections
  /\ sockets = <<>>
  /\ handlers = <<>>
  /\ ops = <<>>
  /\ last_send = NoSend

\* json.loads(data), message["type"], message["topic"] and, in
\* real_research_app.py, message["section_title"] ... raise on these
Raises(m) ==
  \/ m \in {"malformed", "no_type", "no_topic"}
  \/ m = "no_fields" /\ frontend = "real"

\* the branch of the if/elif the message takes: the operation it starts
Branch(m) ==
  CASE m = "start_research" ->
         IF frontend = "demo" THEN "simulation" ELSE "research"
    [] m = "regenerate_section" /\ frontend \in {"app", "real"} -> "regenerate"
    [] m = "no_fields" /\ frontend = "app" -> "regenerate"
    [] OTHER -> "none"

\* the coroutine a handler starts for the message m received on socket w
Operation(kind, w, m) ==
  [kind |-> kind, conn |-> w, session_id |-> sockets[w].session_id,
   message |-> m, pc |-> "running", at |-> "start", events |-> <<>>,
   model_calls |-> 0, search_calls |-> 0, queries |-> 0, searched |-> <<>>,
   search_results |-> <<>>, failed |-> "none"]

\* asyncio.create_task(...): the handler goes on to the next receive_text
create_task(k) == [pc |-> "receive", op |-> 0]

\* the handler that does not wait for what it started
await_detached(k) == [pc |-> "receive", op |-> 0]

\* await run_research_with_updates(...), await regenerate_section(...): the
\* handler is suspended until operation k returns
await(k) == [pc |-> "await", op |-> k]

\* await manager.connect(websocket, session_id), for a new WebSocket
websocket_endpoint(s) ==
  /\ Len(sockets) < MaxConn
  /\ sockets' = Append(sockets, [session_id |-> s, open |-> TRUE])
  /\ handlers' = Append(handlers, [pc |-> "receive", op |-> 0])
  /\ active_connections' = connect(active_connections, Len(sockets) + 1, s)
  /\ last_send' = NoSend
  /\ UNCHANGED << run_vars, ops >>

\* the client closes socket w, or the connection breaks
client_close(w) ==
  /\ sockets[w].open
  /\ sockets' = [sockets EXCEPT ![w].open = FALSE]
  /\ last_send' = NoSend
  /\ UNCHANGED << run_vars, active_connections, handlers, ops >>

\* receive_text returns m, a request: the branch starts its operation
websocket_endpoint_receive(w, m) ==
  /\ handlers[w].pc = "receive"
  /\ sockets[w].open
  /\ Len(ops) < MaxMsgs
  /\ ~Raises(m)
  /\ Branch(m) # "none"
  /\ ops' = Append(ops, Operation(Branch(m), w, m))
  /\ handlers' = [handlers EXCEPT ![w] =
                    IF frontend = "demo" THEN create_task(Len(ops) + 1)
                    ELSE await(Len(ops) + 1)]
  /\ last_send' = NoSend
  /\ UNCHANGED << run_vars, active_connections, sockets >>

\* receive_text returns a message no branch takes: back to receive_text
websocket_endpoint_ignore(w, m) ==
  /\ handlers[w].pc = "receive"
  /\ sockets[w].open
  /\ ~Raises(m)
  /\ Branch(m) = "none"
  /\ last_send' = NoSend
  /\ UNCHANGED << run_vars, active_connections, sockets, handlers, ops >>

\* json.loads or a subscript raises: no except clause matches, the exception
\* leaves the handler and the server closes the socket
websocket_endpoint_raise(w, m) ==
  /\ handlers[w].pc = "receive"
  /\ sockets[w].open
  /\ Raises(m)
  /\ handlers' = [handlers EXCEPT ![w].pc = "raised"]
  /\ sockets' = [sockets EXCEPT ![w].open = FALSE]
  /\ last_send' = NoSend
  /\ UNCHANGED << run_vars, active_connections, ops >>

\* receive_text raises WebSocketDisconnect: manager.disconnect(session_id)
websocket_endpoint_disconnect(w) ==
  /\ handlers[w].pc = "receive"
  /\ ~sockets[w].open
  /\ active_connections' = disconnect(active_connections, sockets[w].session_id)
  /\ handlers' = [handlers EXCEPT ![w].pc = "returned"]
  /\ last_send' = NoSend
  /\ UNCHANGED << run_vars, sockets, ops >>

\* whether send_text on the registered socket succeeds: it does on an open
\* socket; on a closed one it raises, or the server drops the frame silently
SendOutcomes(s) ==
  IF s \in DOMAIN active_connections /\ sockets[active_connections[s]].open
  THEN {TRUE}
  ELSE BOOLEAN

\* operation k calls manager.send_update(session_id, data)
Send(k, data, ok) ==
  LET s == ops[k].session_id
      r == SendUpdate(Now, s, data, ok)
  IN  /\ active_connections' = r.active
      /\ last_send' =
           [session_id |-> s,
            websocket |-> IF s \in DOMAIN active_connections /\ r.last.outcome # "skipped"
                          THEN active_connections[s] ELSE 0,
            outcome |-> r.last.outcome, raised |-> r.raised, op |-> k]

\* the awaiting handler, if any, goes back to receive_text
Resumed(k) ==
  [w \in DOMAIN handlers |->
     IF handlers[w].pc = "await" /\ handlers[w].op = k
     THEN [pc |-> "receive", op |-> 0]
     ELSE handlers[w]]

\* a status update of a run or a regeneration
StatusOf(kind) ==
  IF kind = "research"
  THEN Event("status", "researching", "Researching", 50, NoDetails, NoResult)
  ELSE Event("status", "regenerating", "Regenerating section", 25, NoDetails,
             NoResult)

\* the last event of a run or a regeneration
OutcomeOf(kind, success) ==
  IF kind = "research"
  THEN IF success
       THEN Event("complete", "complete", "Research completed successfully!",
                  100, NoDetails, NoResult)
       ELSE Event("error", NoStep, "Error during research", 0, NoDetails,
                  NoResult)
  ELSE Event("section_complete", NoStep, "", 0, NoDetails,
             [success |-> success])

\* a run or a regeneration sends a status update
operation_send(k) ==
  /\ ops[k].pc = "running"
  /\ \E ok \in SendOutcomes(ops[k].session_id) :
       Send(k, StatusOf(ops[k].kind), ok)
  /\ UNCHANGED << run_vars, sockets, handlers, ops >>

\* a run or a regeneration sends its last event and returns; each of them
\* catches every exception, so nothing is raised into the handler
operation_return(k) ==
  /\ ops[k].pc = "running"
  /\ \E ok \in SendOutcomes(ops[k].session_id), success \in BOOLEAN :
       Send(k, OutcomeOf(ops[k].kind, success), ok)
  /\ ops' = [ops EXCEPT ![k].pc = "done"]
  /\ handlers' = Resumed(k)
  /\ UNCHANGED << run_vars, sockets >>

InitWS ==
  /\ frontend \in {"app", "real"}
  /\ RESEARCH_AVAILABLE = TRUE
  /\ Serving

NextWS ==
  \/ \E s \in SessionIds : websocket_endpoint(s)
  \/ \E w \in DOMAIN sockets : client_close(w)
  \/ \E w \in DOMAIN sockets, m \in Messages : websocket_endpoint_receive(w, m)
  \/ \E w \in DOMAIN sockets, m \in Messages : websocket_endpoint_ignore(w, m)
  \/ \E w \in DOMAIN sockets, m \in Messages : websocket_endpoint_raise(w, m)
  \/ \E w \in DOMAIN sockets : websocket_endpoint_disconnect(w)
  \/ \E k \in DOMAIN ops : operation_send(k)
  \/ \E k \in DOMAIN ops : operation_return(k)

SpecWS == InitWS /\ [][NextWS]_vars

-----------------------------------------------------------------------------
\* Section regeneration: regenerate_section_with_feedback of app.py and
\* regenerate_section of real_research_app.py, step by step, on one
\* connection. A call (imports and client construction, the model, the
\* search provider) returns or raises; a send is one send_update.

\* Lines the model returns as search queries in real_research_app.py.
MaxLines == 3

\* one connection, accepted under SessionId, whose handler is at receive_text
Connected ==
  /\ active_connections = connect(NoConnections, 1, SessionId)
  /\ sockets = << [session_id |-> SessionId, open |-> TRUE] >>
  /\ handlers = << [pc |-> "receive", op |-> 0] >>
  /\ ops = <<>>
  /\ last_send = NoSend

\* operation k calls send_update with data and goes on at position at, or
\* returns
Emits(k, data, at, returns) ==
  /\ \E ok \in SendOutcomes(ops[k].session_id) : Send(k, data, ok)
  /\ ops' = [ops EXCEPT ![k].events = Append(@, data), ![k].at = at,
                        ![k].pc = IF returns THEN "done" ELSE "running"]
  /\ handlers' = IF returns THEN Resumed(k) ELSE handlers
  /\ UNCHANGED << run_vars, sockets >>

\* operation k makes a call, which returns or raises
Calls(k, op) ==
  /\ ops' = [ops EXCEPT ![k] = op]
  /\ last_send' = NoSend
  /\ UNCHANGED << run_vars, active_connections, sockets, handlers >>

Regenerating(message, progress) ==
  Event("status", "regenerating", message, progress, NoDetails, NoResult)

\* the 'section_complete' event
SectionComplete(success, error) ==
  Event("section_complete", NoStep, "", 0, NoDetails,
        [success |-> success, error |-> error])

\* all([section_title, feedback, topic]) holds whatever the message
Valid_always(m) == TRUE

\* all([section_title, feedback, topic])
Valid(m) == m # "no_fields"

\* app.py, where the steps of regenerate_section_with_feedback lead
AfterCall(at) ==
  CASE at = "setup" -> "status25"
    [] at = "queries" -> "status50"
    [] at = "search" -> "status75"
    [] at = "content" -> "complete"

AfterStatus(at) ==
  CASE at = "status25" -> "queries"
    [] at = "status50" -> "search"
    [] at = "status75" -> "content"

StatusAt(at) ==
  CASE at = "status25" ->
         Regenerating("Generating new search queries based on feedback...", 25)
    [] at = "status50" ->
         Regenerating("Searching for updated information...", 50)
    [] at = "status75" ->
         Regenerating("Rewriting section with new information...", 75)

\* regenerate_section_with_feedback, to its first send_update
regenerate_section_with_feedback(k) ==
  /\ frontend = "app"
  /\ ops[k].kind = "regenerate"
  /\ ops[k].pc = "running"
  /\ ops[k].at = "start"
  /\ IF Valid(ops[k].message)
     THEN Emits(k, Regenerating("Regenerating section", 0), "setup", FALSE)
     ELSE Emits(k, SectionComplete(FALSE,
                     "Missing required information for section regeneration"),
                "return", TRUE)

\* the imports and init_chat_model, structured_query_model.ainvoke,
\* select_and_execute_search, model.ainvoke: each returns or raises
regenerate_section_with_feedback_call(k) ==
  /\ frontend = "app"
  /\ ops[k].pc = "running"
  /\ ops[k].at \in {"setup", "queries", "search", "content"}
  /\ \E ok \in BOOLEAN :
       Calls(k, [ops[k] EXCEPT
                   !.model_calls =
                      IF ops[k].at \in {"queries", "content"} THEN @ + 1 ELSE @,
                   !.search_calls = IF ops[k].at = "search" THEN @ + 1 ELSE @,
                   !.failed = IF ok THEN @ ELSE ops[k].at,
                   !.at = IF ok THEN AfterCall(@) ELSE "except"])

\* the status updates with progress 25, 50 and 75
regenerate_section_with_feedback_status(k) ==
  /\ frontend = "app"
  /\ ops[k].pc = "running"
  /\ ops[k].at \in {"status25", "status50", "status75"}
  /\ Emits(k, StatusAt(ops[k].at), AfterStatus(ops[k].at), FALSE)

\* Send completion
regenerate_section_with_feedback_complete(k) ==
  /\ frontend = "app"
  /\ ops[k].pc = "running"
  /\ ops[k].at = "complete"
  /\ Emits(k, SectionComplete(TRUE, "none"), "return", TRUE)

\* except Exception as e
regenerate_section_with_feedback_except(k) ==
  /\ frontend = "app"
  /\ ops[k].pc = "running"
  /\ ops[k].at = "except"
  /\ Emits(k, SectionComplete(FALSE,
                 << "Error regenerating section: ", ops[k].failed >>),
           "return", TRUE)

\* real_research_app.py, the updates of regenerate_section after the first
UpdateAt(at) ==
  CASE at = "thinking" ->
         Event("thinking", NoStep, "Quick Section Regeneration", 0, NoDetails,
               NoResult)
    [] at = "status50" ->
         Event("status", "researching", "Gathering focused information...", 50,
               NoDetails, NoResult)
    [] at = "queried" ->
         Event("thinking", NoStep, "Targeted Research Queries", 0, NoDetails,
               NoResult)
    [] at = "search" ->
         Event("status", "writing", "Generating improved content...", 75,
               NoDetails, NoResult)

AfterUpdate(at) ==
  CASE at = "thinking" -> "status50"
    [] at = "status50" -> "clients"
    [] at = "queried" -> "search"
    [] at = "search" -> "content"

\* queries = [...][:2]
Truncated(lines) == IF lines < 2 THEN lines ELSE 2

\* a failed search raises out of the loop
SearchFailed_raises(op) ==
  [op EXCEPT !.searched = Append(@, FALSE), !.search_calls = @ + 1,
             !.failed = "search", !.at = "except"]

\* except Exception as e: print(...); continue
SearchFailed(op) ==
  [op EXCEPT !.searched = Append(@, FALSE), !.search_calls = @ + 1]

\* regenerate_section, to its first send_update
regenerate_section(k) ==
  /\ frontend = "real"
  /\ ops[k].kind = "regenerate"
  /\ ops[k].pc = "running"
  /\ ops[k].at = "start"
  /\ IF RESEARCH_AVAILABLE
     THEN Emits(k, Regenerating("Regenerating section", 25), "thinking", FALSE)
     ELSE Emits(k, SectionComplete(FALSE, "Research modules not available"),
                "return", TRUE)

\* the 'thinking' updates, 'researching' 50 and, after the loop, 'writing' 75
regenerate_section_update(k) ==
  /\ frontend = "real"
  /\ ops[k].pc = "running"
  /\ \/ ops[k].at \in {"thinking", "status50", "queried"}
     \/ ops[k].at = "search" /\ Len(ops[k].searched) = ops[k].queries
  /\ Emits(k, UpdateAt(ops[k].at), AfterUpdate(ops[k].at), FALSE)

\* TavilyClient(api_key=...), OpenAI(api_key=...): a missing key raises
regenerate_section_clients(k) ==
  /\ frontend = "real"
  /\ ops[k].pc = "running"
  /\ ops[k].at = "clients"
  /\ \E ok \in BOOLEAN :
       Calls(k, [ops[k] EXCEPT !.failed = IF ok THEN @ ELSE "clients",
                              !.at = IF ok THEN "queries" ELSE "except"])

\* the gpt-4o-mini call for the queries: its answer holds some lines, of
\* which the first two are kept
regenerate_section_queries(k) ==
  /\ frontend = "real"
  /\ ops[k].pc = "running"
  /\ ops[k].at = "queries"
  /\ \/ \E lines \in 0..MaxLines :
          Calls(k, [ops[k] EXCEPT !.model_calls = @ + 1,
                                 !.queries = Truncated(lines),
                                 !.at = "queried"])
     \/ Calls(k, [ops[k] EXCEPT !.model_calls = @ + 1, !.failed = "model",
                               !.at = "except"])

\* for query in queries: tavily_client.search(...)
regenerate_section_search(k) ==
  /\ frontend = "real"
  /\ ops[k].pc = "running"
  /\ ops[k].at = "search"
  /\ Len(ops[k].searched) < ops[k].queries
  /\ \/ Calls(k, [ops[k] EXCEPT
                     !.searched = Append(@, TRUE),
                     !.search_calls = @ + 1,
                     !.search_results = Append(@, Len(ops[k].searched) + 1)])
     \/ Calls(k, SearchFailed(ops[k]))

\* the gpt-4o call for the content
regenerate_section_content(k) ==
  /\ frontend = "real"
  /\ ops[k].pc = "running"
  /\ ops[k].at = "content"
  /\ \E ok \in BOOLEAN :
       Calls(k, [ops[k] EXCEPT !.model_calls = @ + 1,
                              !.failed = IF ok THEN @ ELSE "model",
                              !.at = IF ok THEN "complete" ELSE "except"])

\* Send completion
regenerate_section_complete(k) ==
  /\ frontend = "real"
  /\ ops[k].pc = "running"
  /\ ops[k].at = "complete"
  /\ Emits(k, SectionComplete(TRUE, "none"), "return", TRUE)

\* except Exception as e
regenerate_section_except(k) ==
  /\ frontend = "real"
  /\ ops[k].pc = "running"
  /\ ops[k].at = "except"
  /\ Emits(k, SectionComplete(FALSE, ops[k].failed), "return", TRUE)

InitRegen ==
  /\ frontend \in {"app", "real"}
  /\ RESEARCH_AVAILABLE \in BOOLEAN
  /\ (frontend # "real" => RESEARCH_AVAILABLE)
  /\ NoRun
  /\ Connected

NextRegen ==
  \/ \E w \in DOMAIN sockets : client_close(w)
  \/ \E w \in DOMAIN sockets, m \in {"regenerate_section", "no_fields"} :
       websocket_endpoint_receive(w, m)
  \/ \E w \in DOMAIN sockets : websocket_endpoint_raise(w, "no_fields")
  \/ \E w \in DOMAIN sockets : websocket_endpoint_disconnect(w)
  \/ \E k \in DOMAIN ops : regenerate_section_with_feedback(k)
  \/ \E k \in DOMAIN ops : regenerate_section_with_feedback_call(k)
  \/ \E k \in DOMAIN ops : regenerate_section_with_feedback_status(k)
  \/ \E k \in DOMAIN ops : regenerate_section_with_feedback_complete(k)
  \/ \E k \in DOMAIN ops : regenerate_section_with_feedback_except(k)
  \/ \E k \in DOMAIN ops : regenerate_section(k)
  \/ \E k \in DOMAIN ops : regenerate_section_update(k)
  \/ \E k \in DOMAIN ops : regenerate_section_clients(k)
  \/ \E k \in DOMAIN ops : regenerate_section_queries(k)
  \/ \E k \in DOMAIN ops : regenerate_section_search(k)
  \/ \E k \in DOMAIN ops : regenerate_section_content(k)
  \/ \E k \in DOMAIN ops : regenerate_section_complete(k)
  \/ \E k \in DOMAIN ops : regenerate_section_except(k)

SpecRegen == InitRegen /\ [][NextRegen]_vars

\* The event loop resumes the handler and the regeneration it awaits, and
\* every call to the model or the search provider returns or raises in the
\* end: a step that stays possible is taken.
FairSpecRegen == SpecRegen /\ WF_vars(NextRegen)

-----------------------------------------------------------------------------
\* simple_web_demo.py: the handler starts simulate_research as a background
\* task for each start_research and goes on receiving. One connection, the
\* simulations started on it with their events, one by one.

Status(step, message, progress) ==
  Event("status", step, message, progress, NoDetails, NoResult)

\* the events of simulate_research, an asyncio.sleep between two of them
SimulationEvents ==
  << Status("initializing", "Starting research on: topic", 0),
     Status("planning",
            "Analyzing topic and creating research outline...", 15),
     Status("planning_complete",
            "Research outline created with 3 sections", 25),
     Status("query_generation",
            "Generating targeted search queries for each section...", 35),
     Status("researching",
            "Conducting web searches and gathering information...", 50),
     Status("writing",
            "Analyzing search results and writing detailed sections...", 75),
     Status("finalizing", "Compiling final report...", 90),
     Event("complete", "complete", "Research completed successfully!", 100,
           NoDetails, NoResult) >>

\* one position for all the simulations of a session: the event after the
\* furthest one sent under the session id
NextEvent_shared(op) ==
  LET sent == {Len(ops[j].events) :
                 j \in {i \in DOMAIN ops : ops[i].session_id = op.session_id}}
      furthest == CHOOSE n \in sent : \A m \in sent : m <= n
  IN  IF furthest < Len(SimulationEvents) THEN furthest + 1
      ELSE Len(SimulationEvents)

\* the position of a simulation is a local of its coroutine: the event after
\* the ones it has sent
NextEvent(op) == Len(op.events) + 1

\* simulate_research: the next send_update, after the sleep
simulate_research(k) ==
  /\ frontend = "demo"
  /\ ops[k].kind = "simulation"
  /\ ops[k].pc = "running"
  /\ LET i == NextEvent(ops[k])
     IN  Emits(k, SimulationEvents[i], "sleep", i = Len(SimulationEvents))

InitDemo ==
  /\ frontend = "demo"
  /\ RESEARCH_AVAILABLE = TRUE
  /\ NoRun
  /\ Connected

NextDemo ==
  \/ \E w \in DOMAIN sockets : client_close(w)
  \/ \E w \in DOMAIN sockets : websocket_endpoint_receive(w, "start_research")
  \/ \E w \in DOMAIN sockets : websocket_endpoint_ignore(w, "regenerate_section")
  \/ \E w \in DOMAIN sockets : websocket_endpoint_raise(w, "no_topic")
  \/ \E w \in DOMAIN sockets : websocket_endpoint_disconnect(w)
  \/ \E k \in DOMAIN ops : simulate_research(k)

SpecDemo == InitDemo /\ [][NextDemo]_vars

\* The event loop wakes every sleeping simulation: a step that stays
\* possible is taken.
FairSpecDemo == SpecDemo /\ WF_vars(NextDemo)

-----------------------------------------------------------------------------
\* Helpers of the properties.

Range(f) == {f[i] : i \in DOMAIN f}

Names(seq) == {seq[i].section_name : i \in DOMAIN seq}

Dispatched == node \in {"processing", "joined", "final_wait", "END"}

Compiling == node \in {"joined", "final_wait"}

\* what the collaborators' responses make of entry i of the plan
ExpectedResult(i) ==
  LET entry == initial_sections[i]
      queries == QueriesResponse(stub, topic, entry.name, entry.description)
      content == SearchResponse(stub, queries)
  IN  [section_name |-> entry.name, queries |-> queries, content |-> content,
       summary |-> SummaryResponse(stub, entry.name, entry.description, topic,
                                   content)]

ExpectedResults == {ExpectedResult(i) : i \in DOMAIN initial_sections}

-----------------------------------------------------------------------------
\* C1 (fan-out completeness): for a plan of K entries, whatever K is, the
\* conditional edge dispatches exactly K process_section tasks, one per entry
\* and only once, and when the run has completed section_results holds
\* exactly K results, one per section name of the plan, none twice and none
\* missing, whatever the order in which the tasks returned.
C1_FanOutComplete ==
  /\ calls.route <= 1
  /\ Dispatched =>
       /\ Len(tasks) = Len(initial_sections)
       /\ \A i \in DOMAIN tasks : tasks[i].section_name = initial_sections[i].name
  /\ node = "END" =>
       /\ Len(section_results) = Len(initial_sections)
       /\ Cardinality(Names(section_results)) = Len(section_results)
       /\ Names(section_results) =
            {initial_sections[i].name : i \in DOMAIN initial_sections}

\* a plan of 2 entries completed, the second task having returned first
C1_Witness ==
  /\ pc = "done" /\ node = "END"
  /\ Len(initial_sections) = 2
  /\ settled = <<2, 1>>
  /\ Len(section_results) = 2

\* C2 (join barrier): generate_final_report is not entered while a
\* dispatched task is unsettled; once it has been entered every dispatched
\* task has returned and section_results holds the result of each of them.
C2_JoinBarrier ==
  (calls.final > 0 \/ Compiling \/ node = "END") =>
     /\ tasks # <<>>
     /\ \A i \in DOMAIN tasks :
          /\ tasks[i].pc = "done"
          /\ \E j \in DOMAIN section_results : <<section_results[j]>> = tasks[i].writes
     /\ Len(section_results) = Len(tasks)

\* generate_final_report has been entered and waits for its model call
C2_Witness ==
  /\ node = "final_wait" /\ calls.final = 1
  /\ \A i \in DOMAIN tasks : tasks[i].pc = "done"
  /\ Len(section_results) = 3

\* C3 (merge order-independence): whatever the order in which the tasks
\* returned, the merged section_results is, as a set, the set of the results
\* of the plan's sections.
C3_MergeOrderIndependent ==
  (Compiling \/ node = "END") => Range(section_results) = ExpectedResults

\* the tasks returned in the reverse of the dispatch order
C3_Witness ==
  /\ node = "END"
  /\ settled = <<3, 2, 1>>
  /\ Range(section_results) = ExpectedResults

\* C4 (fail-fast): when a process_section task has failed, the run has no
\* final report: generate_final_report is not entered, final_report is not
\* set, nothing is merged into section_results, no 'complete' notification
\* is made and the front end does not finish as done.
C4_FailFast ==
  (\E i \in DOMAIN tasks : tasks[i].pc = "failed") =>
     /\ calls.final = 0
     /\ ~Compiling /\ node # "END"
     /\ final_report = NoReport
     /\ section_results = <<>>
     /\ count["complete"] = 0
     /\ count["finalizing"] = 0
     /\ last.type # "complete"
     /\ pc # "done"

\* a run ended in error with one task failed and another one returned
C4_Witness ==
  /\ pc = "error"
  /\ \E i \in DOMAIN tasks : tasks[i].pc = "failed"
  /\ \E i \in DOMAIN tasks : tasks[i].pc = "done"

Terminated == ~ENABLED Next

\* C5 (one error notification): a run of app.py or real_research_app.py
\* that fails ends with exactly one error notification, which carries a
\* message and progress 0; no notification of the run follows it, and none
\* is made in a run that does not fail.
C5_OneErrorNotification ==
  frontend \in {"app", "real"} =>
     /\ count["error"] <= 1
     /\ (count["error"] = 1) = (pc = "error")
     /\ pc = "error" =>
          /\ last.type = "error"
          /\ last.progress = 0
          /\ last.message # ""
          /\ node = "raised" \/ ~RESEARCH_AVAILABLE
     /\ (Terminated /\ (node = "raised" \/ ~RESEARCH_AVAILABLE)) => pc = "error"
     /\ (Terminated /\ node # "raised" /\ RESEARCH_AVAILABLE) =>
          pc = "done" /\ count["error"] = 0

\* a section's search failed and the error notification went out
C5_Witness ==
  /\ frontend = "app" /\ pc = "error" /\ Terminated
  /\ exception = "SearchError"
  /\ last.type = "error" /\ last.outcome = "sent"
  /\ \E i \in DOMAIN tasks : tasks[i].pc = "cancelled"

NoFailureYet ==
  /\ exception = NoError
  /\ \A i \in DOMAIN tasks : tasks[i].pc # "failed"
  /\ SessionId \in DOMAIN active_connections

\* C6 (progress monotonicity): in a run through app.py in which nothing has
\* failed, each notification's progress is at least the progress of the
\* notification before it.
C6_ProgressMonotone ==
  [][(frontend = "app" /\ NoFailureYet /\ NoFailureYet' /\ count' # count)
       => last'.progress >= last.progress]_vars

\* C7 (planning precedes processing): no process_section task exists before
\* generate_initial_summary has returned the complete plan, and every task's
\* topic, section name and description are the run's topic and an entry of
\* that plan.
C7_PlanningPrecedes ==
  /\ node \in {"idle", "START", "plan_wait", "planned"} =>
       tasks = <<>> /\ count["query_generation"] = 0
  /\ initial_sections = <<>> => tasks = <<>>
  /\ tasks # <<>> =>
       /\ calls.plan = 1
       /\ initial_sections = InitialSectionsOf(PlanResponse(stub, topic))
       /\ \A i \in DOMAIN tasks :
            /\ tasks[i].topic = topic
            /\ tasks[i].section_name = initial_sections[i].name
            /\ tasks[i].section_description = initial_sections[i].description

\* a task has started and waits for its query-generation call
C7_Witness ==
  /\ node = "processing"
  /\ \E i \in DOMAIN tasks : tasks[i].pc = "qgen"
  /\ \E i \in DOMAIN tasks : tasks[i].pc = "start"

Rank(n) ==
  CASE n \in {"idle", "START", "plan_wait"} -> 1
    [] n \in {"planned", "processing"} -> 2
    [] n \in {"joined", "final_wait"} -> 3
    [] n = "END" -> 4
    [] n = "raised" -> 5

\* C8 (single shot): the run moves through Planning, Processing, Compiling,
\* Done in that order and never back; generate_initial_summary, the fan-out
\* and generate_final_report are each entered at most once, and the set of
\* dispatched tasks does not change once compilation has started.
C8_SingleShot ==
  [][/\ Rank(node') >= Rank(node)
     /\ calls'.plan <= 1 /\ calls'.route <= 1 /\ calls'.final <= 1
     /\ (Rank(node) \in {3, 4} => tasks' = tasks)
     /\ (node = "raised" => node' = "raised")]_vars

\* a run that went through every phase
C8_Witness ==
  /\ node = "END" /\ pc = "done"
  /\ calls = [plan |-> 1, route |-> 1, final |-> 1]

\* C9 (notifier failure): an exception raised by the progress callback never
\* aborts the graph run.
C9_NotifierFailureTolerated ==
  ~(node = "raised" /\ exception = "CallbackError")

Expected ==
  /\ initial_sections = InitialSectionsOf(PlanResponse(stub, topic))
  /\ Range(section_results) = ExpectedResults
  /\ Len(section_results) = Len(initial_sections)
  /\ final_report = FinalResponse(stub, topic, SectionsText(section_results))

\* C10 (absent notifier): without a progress_callback the nodes make no
\* notification and fail for no lack of it, and a completed run's
\* initial_sections, section_results and final_report are what the model and
\* search responses determine, the same with and without a callback.
C10_AbsentNotifierNoOp ==
  /\ callback = "absent" => exception # "CallbackError"
  /\ (callback = "absent" /\ frontend = "example") =>
       last = NoEvent /\ \A k \in Kinds : count[k] = 0
  /\ (callback = "absent" /\ frontend = "real") =>
       \A k \in {"planning_complete", "query_generation", "writing"} :
         count[k] = 0
  /\ node = "END" => Expected

\* simple_example.py's run, which has no callback, completed
C10_Witness ==
  /\ frontend = "example" /\ callback = "absent"
  /\ pc = "done" /\ node = "END"
  /\ last = NoEvent
  /\ Expected

\* C11 (delivery failure): a send that fails on the session's WebSocket is
\* swallowed by send_update: the session is dropped from the registry, the
\* callback does not raise, and the run of app.py goes on to the end: unless
\* a model or search call fails, every task returns and the final report is
\* generated.
C11_DeliveryFailureTolerated ==
  frontend = "app" =>
     /\ exception # "CallbackError"
     /\ \A i \in DOMAIN tasks : tasks[i].err # "CallbackError"
     /\ last.outcome = "failed" => SessionId \notin DOMAIN active_connections
     /\ last.outcome \in {"none", "pending", "sent", "failed", "skipped"}
     /\ (Terminated /\ exception = NoError) =>
          /\ pc = "done" /\ node = "END"
          /\ \A i \in DOMAIN tasks : tasks[i].pc = "done"
          /\ Len(section_results) = 3
          /\ final_report # NoReport

\* a send of the run failed and the run completed all the same
C11_Witness ==
  /\ frontend = "app" /\ pc = "done" /\ node = "END"
  /\ SessionId \notin DOMAIN active_connections
  /\ count["initializing"] = 1 /\ count["complete"] = 1
  /\ last.type = "complete" /\ last.outcome = "skipped"
  /\ final_report # NoReport

\* C12 (complete plan or none): initial_sections, once set, has exactly the
\* keys 'Section 1', 'Section 2', 'Section 3' in that order; when the
\* planner's structured model call fails generate_initial_summary fails as a
\* whole: initial_sections stays unset and no task is dispatched.
C12_CompletePlanOrNone ==
  /\ \/ initial_sections = <<>>
     \/ /\ Len(initial_sections) = 3
        /\ \A i \in 1..3 : initial_sections[i].name = SectionName(i)
  /\ (node = "raised" /\ calls.route = 0) =>
       /\ initial_sections = <<>>
       /\ tasks = <<>>
       /\ count["query_generation"] = 0
       /\ exception = "GenerationError" => count["planning_complete"] = 0
  /\ node \in {"idle", "START", "plan_wait"} => initial_sections = <<>>

\* the planner's model call failed
C12_Witness ==
  /\ node = "raised" /\ exception = "GenerationError"
  /\ calls = [plan |-> 1, route |-> 0, final |-> 0]
  /\ initial_sections = <<>> /\ tasks = <<>>

\* C13 (stages in sequence): in each task the search is called only after
\* query generation returned and with exactly the generated queries, the
\* summarization only after the search returned and with exactly the
\* retrieved corpus; each of the three calls is made at most once, and
\* exactly once in a task that returns.
C13_StagesSequential ==
  \A i \in DOMAIN tasks :
    LET t == tasks[i]
    IN  /\ t.calls.query <= 1 /\ t.calls.search <= 1 /\ t.calls.summary <= 1
        /\ t.calls.search = 1 =>
             /\ t.calls.query = 1 /\ t.returned >= 1
             /\ t.search_arg = t.queries
             /\ t.queries = QueriesResponse(stub, t.topic, t.section_name,
                                            t.section_description)
        /\ t.calls.summary = 1 =>
             /\ t.calls.search = 1 /\ t.returned >= 2
             /\ t.summary_arg = t.content
             /\ t.content = SearchResponse(stub, t.queries)
        /\ t.returned <= t.calls.query + t.calls.search + t.calls.summary
        /\ t.pc = "done" =>
             t.calls = [query |-> 1, search |-> 1, summary |-> 1]

\* a task that was given four queries returned while another one is still
\* waiting for its search
C13_Witness ==
  /\ \E i \in DOMAIN tasks :
       /\ tasks[i].pc = "done"
       /\ Len(tasks[i].search_arg) = 4
  /\ \E i \in DOMAIN tasks :
       /\ tasks[i].pc = "search"
       /\ tasks[i].calls = [query |-> 1, search |-> 1, summary |-> 0]

ContributesOnce ==
  /\ \A i \in DOMAIN tasks :
       LET t == tasks[i]
       IN  /\ t.calls.query <= 1 /\ t.calls.search <= 1 /\ t.calls.summary <= 1
           /\ t.pc = "done" =>
                /\ Len(t.writes) = 1
                /\ t.writes[1].section_name = t.section_name
                /\ t.writes[1].queries =
                     QueriesResponse(stub, t.topic, t.section_name,
                                     t.section_description)
                /\ t.writes[1].content = SearchResponse(stub, t.writes[1].queries)
                /\ Cardinality({k \in DOMAIN settled : settled[k] = i}) = 1
           /\ t.pc # "done" =>
                /\ t.writes = <<>>
                /\ \A k \in DOMAIN settled : settled[k] # i
  /\ \A j \in DOMAIN section_results :
       \E i \in DOMAIN tasks :
          tasks[i].pc = "done" /\ tasks[i].writes = <<section_results[j]>>

\* C14 (one result per successful task): a task that returns contributes
\* one singleton list whose SectionResult carries the task's section name,
\* the generated queries and the retrieved corpus; a task makes each
\* external call at most once, a failed task stays failed without any
\* further call, and contributes nothing.
C14_OneResultPerTask ==
  /\ []ContributesOnce
  /\ [][\A i \in DOMAIN tasks :
          tasks[i].pc = "failed" =>
            (i \in DOMAIN tasks' /\ tasks'[i] = tasks[i])]_vars

\* one task returned and another one failed in its search
C14_Witness ==
  /\ \E i \in DOMAIN tasks : tasks[i].pc = "done" /\ Len(tasks[i].writes) = 1
  /\ \E i \in DOMAIN tasks :
       /\ tasks[i].pc = "failed" /\ tasks[i].err = "SearchError"
       /\ tasks[i].writes = <<>>

\* C15 (search failure propagates): a failure of a task's search is not
\* caught in process_section: the task settles as failed with that error,
\* its summarization call is never made, it produces no SectionResult, and
\* the graph run then raises instead of compiling a report.
C15_SearchFailurePropagates ==
  /\ \A i \in DOMAIN tasks :
       LET t == tasks[i]
       IN  /\ t.calls.summary = 1 => t.returned >= 2
           /\ t.err = "SearchError" =>
                /\ t.pc = "failed"
                /\ t.calls = [query |-> 1, search |-> 1, summary |-> 0]
                /\ t.returned = 1
                /\ t.writes = <<>>
                /\ \A j \in DOMAIN section_results :
                     section_results[j].section_name # t.section_name
                /\ node \in {"processing", "raised"}
                /\ Terminated => node = "raised"
  /\ exception = "SearchError" =>
       /\ node = "raised"
       /\ \E i \in DOMAIN tasks : tasks[i].err = "SearchError"
       /\ final_report = NoReport

\* a search failed and its failure left the graph run
C15_Witness ==
  /\ node = "raised" /\ exception = "SearchError"
  /\ \E i \in DOMAIN tasks :
       /\ tasks[i].pc = "failed" /\ tasks[i].err = "SearchError"
       /\ tasks[i].calls.summary = 0

\* C16 (empty corpus): a search that returns an empty corpus does not fail
\* the task: once the search has returned, the task fails only if the
\* callback raises or the summarization call fails; the summarization is
\* called with the corpus as it is, empty or not, and the task's result
\* carries it; a run in which no call failed completes with three results.
C16_EmptyCorpusAccepted ==
  /\ \A i \in DOMAIN tasks :
       LET t == tasks[i]
       IN  /\ (t.returned = 2 /\ t.pc = "failed") =>
                \/ t.err = "CallbackError" /\ t.calls.summary = 0
                \/ t.err = "GenerationError" /\ t.calls.summary = 1
           /\ (t.returned = 2 /\ t.pc \notin {"failed", "cancelled"}) =>
                /\ t.pc = "summ"
                /\ t.calls.summary = 1
                /\ t.summary_arg = t.content
           /\ t.pc = "done" =>
                /\ t.writes[1].content = t.content
                /\ t.writes[1].summary =
                     SummaryResponse(stub, t.section_name,
                                     t.section_description, t.topic, t.content)
  /\ (Terminated /\ exception = NoError /\ RESEARCH_AVAILABLE) =>
       /\ node = "END" /\ pc = "done"
       /\ Len(section_results) = 3

\* every search returned an empty corpus and the run completed
C16_Witness ==
  /\ node = "END" /\ pc = "done"
  /\ Len(section_results) = 3
  /\ \A j \in DOMAIN section_results : section_results[j].content = <<>>
  /\ \A i \in DOMAIN tasks :
       tasks[i].calls.summary = 1 /\ tasks[i].summary_arg = <<>>

FailedTasks == {i \in DOMAIN tasks : tasks[i].pc = "failed"}

\* C17 (error names the failing section): when exactly one task failed, with
\* a search error, the run ends with one error event that identifies the
\* failing section, and with no final report.  The event's message is the
\* fixed prefix followed by the text of the exception, which is the search
\* provider's and carries no task data; the section could only be named in
\* the event's details.
C17_ErrorNamesFailingSection ==
  (/\ frontend \in {"app", "real"} /\ pc = "error"
   /\ Cardinality(FailedTasks) = 1
   /\ \A i \in FailedTasks : tasks[i].err = "SearchError") =>
     /\ count["error"] = 1 /\ last.type = "error"
     /\ count["complete"] = 0 /\ final_report = NoReport
     /\ last.message[2] = "SearchError"
     /\ \A i \in FailedTasks : last.details.section = tasks[i].section_name

\* C18 (queries per section): under the configuration every front end
\* supplies, the queries of every SectionResult number as many as the
\* configuration's number_of_queries_per_section, whatever list of strings
\* the model answered with.
C18_QueriesPerSection ==
  configurable = DefaultConfigurable =>
    \A k \in 1..Len(section_results) :
      Len(section_results[k].queries) =
        configurable.number_of_queries_per_section

\* C19 (one configuration per run): the run configuration never changes
\* during a run, and every section task that reached its model works with
\* the model, search provider, queries-per-section and max-results-per-query
\* of the configuration supplied for the run.
C19_TasksUseRunConfiguration ==
  /\ [](\A i \in DOMAIN tasks :
          tasks[i].calls.query > 0 => tasks[i].uses = configurable)
  /\ [][configurable' = configurable]_vars

\* the steps an event may carry
Steps ==
  {"initializing", "planning", "planning_complete", "query_generation",
   "researching", "writing", "finalizing", "complete", "error"}

\* C20 (event shape): every event a web front end sent to the client carries
\* a step of the enumeration and an integer progress within 0..100 (a message
\* is part of every event).
C20_EventShape ==
  (frontend \in {"app", "real"} /\ last.outcome = "sent") =>
    /\ last.step \in Steps
    /\ last.progress \in 0..100

\* name, queries and summary of a SectionResult
Delivered(r) ==
  [name |-> r.section_name, queries |-> r.queries, summary |-> r.summary]

\* C21 (terminal result): the result of a 'complete' event holds one entry
\* per accumulated SectionResult, with that result's name, queries and
\* summary, none twice, and the compiler's output as final_report; the set of
\* entries is the one the responses to the plan's sections determine, so it
\* is the same whether app.py built it from section_results or
\* real_research_app.py from the plan's keys and its per-name maps.
C21_TerminalResult ==
  last.type = "complete" =>
    LET sections == last.result.sections
    IN  /\ frontend \in {"app", "real"} /\ node = "END"
        /\ Len(sections) = Len(section_results)
        /\ Cardinality(Range(sections)) = Len(sections)
        /\ Range(sections) = {Delivered(r) : r \in Range(section_results)}
        /\ Range(sections) = {Delivered(r) : r \in ExpectedResults}
        /\ last.result.topic = topic
        /\ last.result.final_report = final_report
        /\ final_report =
             FinalResponse(stub, topic, SectionsText(section_results))

\* the streaming front end delivered its result after the sections had
\* completed in another order than the plan's
C21_Witness ==
  /\ frontend = "real" /\ last.type = "complete" /\ last.outcome = "sent"
  /\ settled = <<3, 1, 2>>
  /\ Len(last.result.sections) = 3
  /\ last.result.sections # ResultSections(section_results)

\* the lists the reducer is given in a run: the writes of the tasks and the
\* accumulated section_results
MergedLists == {tasks[i].writes : i \in DOMAIN tasks} \cup {section_results}

\* the multiset of the elements of a list
BagOf(seq) ==
  [x \in Range(seq) |-> Cardinality({i \in DOMAIN seq : seq[i] = x})]

Associative ==
  \A a, b, c \in MergedLists : add(add(a, b), c) = add(a, add(b, c))

C23_ReportCompilation ==
  /\ Len(final_prompts) <= 1
  /\ Len(final_prompts) = 1 =>
       LET sections_text == final_prompts[1].sections_text
       IN  /\ final_prompts[1].topic = topic
           /\ Len(sections_text) = Len(section_results)
           /\ \A k \in DOMAIN section_results :
                sections_text[k] = << section_results[k].section_name,
                                      section_results[k].summary >>
           /\ Range(section_results) = ExpectedResults
           /\ node \in {"final_wait", "END", "raised"}
           /\ node = "raised" =>
                exception = "GenerationError" /\ final_report = NoReport
  /\ node = "END" =>
       /\ Len(final_prompts) = 1
       /\ final_report = FinalResponse(stub, topic, final_prompts[1].sections_text)
  /\ final_report # NoReport => node = "END"
  /\ (Terminated /\ node = "raised") => pc \in {"error", "crashed"}

\* the report was compiled from results accumulated in another order than
\* the plan's
C23_Witness ==
  /\ node = "END" /\ final_report # NoReport
  /\ settled = <<2, 3, 1>>
  /\ Len(final_prompts) = 1
  /\ final_prompts[1].sections_text[1][1] = SectionName(2)
  /\ final_prompts[1].sections_text[3][1] = SectionName(1)

\* what a task holds is what the responses to its own requests make of its
\* own topic, section name and description
OwnInputsOnly ==
  \A i \in DOMAIN tasks :
    LET t == tasks[i]
        queries == QueriesResponse(stub, t.topic, t.section_name,
                                   t.section_description)
        content == SearchResponse(stub, queries)
        summary == SummaryResponse(stub, t.section_name, t.section_description,
                                   t.topic, content)
    IN  /\ t.returned >= 1 => t.queries = queries
        /\ t.returned >= 2 => t.content = content
        /\ t.pc = "done" =>
             t.writes = << [section_name |-> t.section_name,
                            queries |-> queries, content |-> content,
                            summary |-> summary] >>

\* C24 (independent tasks): whatever the interleaving, the SectionResult of a
\* task is the one its own topic, section name and description and the
\* responses to its own calls determine; a step of one task leaves every
\* other task as it was, a failure doing no more to the siblings than cancel
\* those still running.
C24_TasksIndependent ==
  /\ []OwnInputsOnly
  /\ [][DOMAIN tasks' = DOMAIN tasks =>
          \A i \in DOMAIN tasks :
            tasks'[i] # tasks[i] =>
              \/ \A j \in DOMAIN tasks \ {i} : tasks'[j] = tasks[j]
              \/ /\ tasks[i].pc \notin {"done", "failed"}
                 /\ tasks'[i] = [tasks[i] EXCEPT !.pc = "cancelled"]]_vars

\* three tasks under way at different stages, with different queries
C24_Witness ==
  /\ Len(tasks) = 3
  /\ tasks[1].pc = "done" /\ Len(tasks[1].writes[1].queries) = 1
  /\ tasks[2].pc = "summ" /\ Len(tasks[2].queries) = 4
  /\ tasks[3].pc = "qgen"

\* C25 (idempotent planning): the plan generate_initial_summary returns is a
\* function of the topic and of the model's (deterministic) answer alone:
\* whichever run calls the planner, under whichever front end and callback,
\* the plan for a topic has the keys 'Section 1', 'Section 2', 'Section 3'
\* and, under each, the description the model gave for that position; so two
\* calls with the same topic and stub return equal plans.
C25_PlanningIdempotent ==
  initial_sections # <<>> =>
    /\ calls.plan = 1
    /\ Len(initial_sections) = 3
    /\ \A i \in 1..3 :
         /\ initial_sections[i].name = SectionName(i)
         /\ initial_sections[i].description = PlanResponse(stub, topic)[i]

\* the planner has returned its plan, in a run of the streaming front end
\* under the second stub
C25_Witness ==
  /\ frontend = "real" /\ stub = 2 /\ topic = "AI"
  /\ node = "planned" /\ calls.plan = 1
  /\ Len(initial_sections) = 3
  /\ initial_sections[3].description = "Outlook"

StageSteps == <<"query_generation", "researching", "writing">>

CheckpointsInOrder ==
  \A i \in DOMAIN tasks :
    LET t == tasks[i]
        n == t.notified
    IN  /\ Len(n) <= 3
        /\ \A k \in DOMAIN n :
             /\ n[k].step = StageSteps[k]
             /\ n[k].details.section = t.section_name
        /\ Len(n) >= 2 =>
             /\ t.returned >= 1
             /\ n[2].details.queries = t.queries
             /\ t.queries = QueriesResponse(stub, t.topic, t.section_name,
                                            t.section_description)
        /\ Len(n) = 3 => t.returned >= 2
        /\ callback = "absent" => n = <<>>
        /\ callback # "absent" =>
             /\ t.pc = "start" => Len(n) = 0
             /\ t.pc = "qgen" => Len(n) = 1
             /\ t.pc = "search" => Len(n) = 2
             /\ t.pc \in {"summ", "done"} => Len(n) = 3
             /\ t.pc = "failed" => Len(n) = t.returned + 1

\* C26 (checkpoints of a section): a task invokes the progress callback with
\* 'query_generation', 'researching', 'writing', in that order and each at
\* most once, all three in a task that returns; every invocation carries the
\* task's section name and 'researching' the generated queries; a task that
\* failed has made the checkpoints up to the stage it failed in and makes no
\* other.
C26_SectionCheckpoints ==
  /\ []CheckpointsInOrder
  /\ [][\A i \in DOMAIN tasks :
          (tasks[i].pc = "failed" /\ i \in DOMAIN tasks') =>
             tasks'[i].notified = tasks[i].notified]_vars

\* under app.py's callback one task returned and another failed in its search
C26_Witness ==
  /\ callback = "manager"
  /\ \E i \in DOMAIN tasks :
       tasks[i].pc = "done" /\ Len(tasks[i].notified) = 3
  /\ \E i \in DOMAIN tasks :
       /\ tasks[i].pc = "failed" /\ tasks[i].err = "SearchError"
       /\ Len(tasks[i].notified) = 2
       /\ tasks[i].notified[2].details.queries = tasks[i].queries

\* the plan the model's answer makes, as names and descriptions
PlanOf(s, t) ==
  [i \in 1..3 |-> [name |-> SectionName(i), description |-> PlanResponse(s, t)[i]]]

\* C27 (planner checkpoints): with a progress callback, 'planning' has been
\* notified when the planner's model call is made and 'planning_complete' has
\* not; 'planning_complete' is notified at most once, after the call has
\* returned, and carries the resulting plan, names and descriptions; when the
\* model call fails it is not notified at all.
C27_PlannerCheckpoints ==
  callback # "absent" =>
    /\ count["planning_complete"] <= 1
    /\ node = "plan_wait" =>
         count["planning"] >= 1 /\ count["planning_complete"] = 0
    /\ node \in {"idle", "START"} => count["planning_complete"] = 0
    /\ count["planning_complete"] = 1 => count["planning"] >= 1
    /\ last.step = "planning_complete" =>
         /\ last.details.sections = PlanOf(stub, topic)
         /\ node = "planned" => last.details.sections = initial_sections
         /\ node \in {"planned", "processing", "raised"}
    /\ initial_sections # <<>> => count["planning_complete"] = 1
    /\ (node = "raised" /\ exception = "GenerationError" /\ calls.route = 0) =>
         count["planning_complete"] = 0

\* a caller's callback was notified of the plan the planner returned
C27_Witness ==
  /\ callback = "injected" /\ node = "planned"
  /\ last.step = "planning_complete" /\ last.outcome = "returned"
  /\ count["planning"] = 1 /\ count["planning_complete"] = 1
  /\ last.details.sections = initial_sections /\ Len(initial_sections) = 3

SectionKinds == {"query_generation", "researching", "writing"}

\* C28 (a notification per transition, app.py): in a run through app.py
\* 'planning_complete' has been notified before any checkpoint of a section;
\* 'finalizing' is notified once every section has notified 'writing', and no
\* section checkpoint follows it; a run that succeeds has notified every
\* transition and ends with 'complete', notified once and followed by
\* nothing.
C28_TransitionsNotified ==
  /\ [](frontend = "app" =>
         /\ (\E k \in SectionKinds : count[k] > 0) =>
              count["planning_complete"] = 1
         /\ count["finalizing"] <= 1 /\ count["complete"] <= 1
         /\ count["finalizing"] = 1 =>
              /\ count["writing"] = Len(tasks) /\ tasks # <<>>
              /\ \A i \in DOMAIN tasks : Len(tasks[i].notified) = 3
         /\ count["complete"] = 1 =>
              /\ last.type = "complete" /\ pc = "done"
              /\ count["finalizing"] = 1 /\ count["planning_complete"] = 1
              /\ \A k \in SectionKinds : count[k] = 3
         /\ pc = "done" => count["complete"] = 1)
  /\ [][frontend = "app" =>
          /\ count["finalizing"] = 1 =>
               \A k \in SectionKinds : count'[k] = count[k]
          /\ count["complete"] = 1 => (count' = count /\ last' = last)]_vars

\* a run through app.py succeeded and its 'complete' event was sent
C28_Witness ==
  /\ frontend = "app" /\ pc = "done" /\ Terminated
  /\ last.type = "complete" /\ last.outcome = "sent"
  /\ count["writing"] = 3 /\ count["finalizing"] = 1 /\ count["complete"] = 1

\* the progress after the c-th of three sections: 20 + floor(50 * c / 3)
ProgressAfter == <<36, 53, 70>>

\* C29 (progress of the streaming front end): the events of a run of
\* run_real_research carry 5 at the start, 20 after planning,
\* 20 + floor(50 * c / K) after the c-th distinct section of the K planned
\* completed, 90 at finalizing and 100 at complete, whatever the order in
\* which the sections completed; every value is within 0..100, and but for
\* the error event, which carries 0, no event carries less than the one
\* before it.
C29_StreamProgress ==
  /\ [](frontend = "real" =>
         /\ last.progress \in 0..100
         /\ last.step = "initializing" => last.progress = 5
         /\ last.step = "planning" => last.progress = 20
         /\ last.step = "researching" =>
              /\ last.details.total = 3
              /\ last.details.completed \in 1..3
              /\ last.details.completed =
                   Cardinality(DOMAIN local.section_summaries)
              /\ last.progress = ProgressAfter[last.details.completed]
         /\ last.step = "finalizing" => last.progress = 90
         /\ last.type = "complete" => last.progress = 100
         /\ last.type = "thinking" =>
              last.progress \in {20, 90} \cup Range(ProgressAfter))
  /\ [][(frontend = "real" /\ count' # count /\ last'.type # "error") =>
          last'.progress >= last.progress]_vars

\* a streamed run completed, its sections having finished in the reverse of
\* the plan's order
C29_Witness ==
  /\ frontend = "real" /\ pc = "done"
  /\ settled = <<3, 2, 1>>
  /\ last.type = "complete" /\ last.progress = 100
  /\ count["researching"] = 3 /\ local.current_progress = 90

TerminalSends == count["complete"] + count["error"]

\* C30 (one terminal outcome): a run started through app.py or
\* real_research_app.py, given that every pending call returns or raises,
\* comes to an end having made exactly one terminal send, 'complete' or
\* 'error'; at no time has it made both or two of a kind, no event follows
\* the terminal one, and the function has then returned to the message loop
\* of the connection.  The plan is of the only size the planner makes.
C30_OneTerminalOutcome ==
  /\ [](frontend \in {"app", "real"} =>
         /\ TerminalSends <= 1
         /\ TerminalSends = 1 => last.type \in {"complete", "error"}
         /\ pc \in {"done", "error"} => TerminalSends = 1
         /\ pc # "crashed")
  /\ (frontend \in {"app", "real"}) ~>
       (/\ pc \in {"done", "error"} /\ TerminalSends = 1
        /\ (pc = "done") = (last.type = "complete")
        /\ Terminated)

\* a streamed run ended with the error event after a section had completed
\* and another had failed
C30_Witness ==
  /\ frontend = "real" /\ pc = "error" /\ Terminated
  /\ count["error"] = 1 /\ count["complete"] = 0
  /\ count["researching"] >= 1
  /\ \E i \in DOMAIN tasks : tasks[i].pc = "failed"

-----------------------------------------------------------------------------
\* the operations started on connection w that have not returned
InProgress(w) == {k \in DOMAIN ops : ops[k].conn = w /\ ops[k].pc # "done"}

\* the operations of the connection of operation k, but k
Siblings(k) == {j \in DOMAIN ops : j # k /\ ops[j].conn = ops[k].conn}

C31_AtMostOne ==
  \A w \in DOMAIN sockets :
    /\ Cardinality(InProgress(w)) <= 1
    /\ handlers[w].pc = "await" <=> InProgress(w) # {}
    /\ handlers[w].pc = "await" => InProgress(w) = {handlers[w].op}

\* the step calls send_update
Sending == last_send' # NoSend /\ last_send' # last_send

C31_NoInterleaving ==
  /\ Sending =>
       \A j \in Siblings(last_send'.op) : ops[j].pc = "done"
  /\ Len(ops') > Len(ops) =>
       \A j \in DOMAIN ops :
         ops[j].conn = ops'[Len(ops')].conn => ops[j].pc = "done"

\* C31 (one message at a time): in app.py and real_research_app.py a
\* connection has at most one run or regeneration in progress, its handler is
\* suspended exactly while that operation is in progress, a message is
\* received and an operation started only when every earlier operation of
\* the connection has returned, and an operation sends an event only when
\* every other operation of its connection has returned, so the events of
\* two operations of one connection never interleave.
C31_OneAtATime == []C31_AtMostOne /\ [][C31_NoInterleaving]_vars

\* a second operation of a connection has sent an event after the first one
\* returned
C31_Witness ==
  \E k \in DOMAIN ops :
    /\ ops[k].pc = "running"
    /\ last_send.op = k
    /\ \E j \in Siblings(k) : ops[j].pc = "done" /\ ops[j].kind # ops[k].kind

-----------------------------------------------------------------------------
\* the connections accepted under session id s
AcceptedFor(s) == {w \in DOMAIN sockets : sockets[w].session_id = s}

\* C32 (registry consistency under reconnects): the most recently accepted
\* WebSocket of a session id that is still open, and whose handler is still
\* running, is the one active_connections holds for that id; the disconnect
\* of an earlier connection with the same id has not removed its entry, so
\* the updates of its runs are sent to it.
C32_RegistryConsistent ==
  \A s \in SessionIds :
    \A w \in AcceptedFor(s) :
      ( /\ sockets[w].open
        /\ handlers[w].pc \in {"receive", "await"}
        /\ \A v \in AcceptedFor(s) : v <= w )
        => s \in DOMAIN active_connections /\ active_connections[s] = w

-----------------------------------------------------------------------------
\* C33 (termination unregisters): when a WebSocket handler terminates, by
\* the client's disconnect or by an exception raised while it receives or
\* dispatches a message, its session id is not in active_connections when
\* it has terminated.
C33_TerminationUnregisters ==
  [][\A w \in DOMAIN handlers :
       ( /\ handlers[w].pc \in {"receive", "await"}
         /\ handlers'[w].pc \in {"returned", "raised"} )
         => sockets[w].session_id \notin DOMAIN active_connections']_vars

-----------------------------------------------------------------------------
\* the registry without the entry of s, the other entries as they are
Without(reg, s) ==
  /\ DOMAIN active_connections' = DOMAIN reg \ {s}
  /\ \A t \in DOMAIN reg \ {s} : active_connections'[t] = reg[t]

C34_LastSend ==
  /\ ~last_send.raised
  /\ last_send.outcome = "skipped" => last_send.websocket = 0
  /\ last_send.outcome = "failed" =>
       \/ last_send.session_id \notin DOMAIN active_connections
       \/ active_connections[last_send.session_id] # last_send.websocket
  /\ \A s \in SessionIds :
       /\ disconnect(disconnect(active_connections, s), s)
            = disconnect(active_connections, s)
       /\ s \notin DOMAIN disconnect(active_connections, s)
       /\ s \notin DOMAIN active_connections
            => disconnect(active_connections, s) = active_connections

C34_SendStep ==
  Sending =>
    LET s == last_send'.session_id
    IN  IF s \in DOMAIN active_connections
        THEN /\ last_send'.outcome \in {"sent", "failed"}
             /\ last_send'.websocket = active_connections[s]
             /\ last_send'.outcome = "sent"
                  => active_connections' = active_connections
             /\ last_send'.outcome = "failed" => Without(active_connections, s)
        ELSE /\ last_send'.outcome = "skipped"
             /\ last_send'.websocket = 0
             /\ active_connections' = active_connections

C34_DisconnectStep ==
  \A w \in DOMAIN handlers :
    (handlers[w].pc = "receive" /\ handlers'[w].pc = "returned")
      => Without(active_connections, sockets[w].session_id)

C34_Registered ==
  \A s \in SessionIds :
    (s \notin DOMAIN active_connections /\ s \in DOMAIN active_connections')
      => Len(sockets') = Len(sockets) + 1 /\ sockets'[Len(sockets')].session_id = s

\* C34 (send_update and disconnect): a send that fails removes the session
\* from active_connections and only that session, and raises nothing; a
\* send_update for a session that is not registered attempts no send,
\* raises nothing and leaves the registry as it is, and a session that was
\* removed is registered again only by a new connect for its id; disconnect
\* removes the entry of its session only, is idempotent, and leaves the
\* registry as it is for a session that is not registered.
C34_FrameEffects ==
  /\ []C34_LastSend
  /\ [][C34_SendStep /\ C34_DisconnectStep /\ C34_Registered]_vars

\* a send was skipped for a session that an earlier failed send removed (no
\* handler of that session has disconnected), another session being
\* registered
C34_Witness ==
  /\ last_send.outcome = "skipped"
  /\ last_send.session_id \notin DOMAIN active_connections
  /\ active_connections # NoConnections
  /\ \A w \in AcceptedFor(last_send.session_id) : handlers[w].pc = "await"

-----------------------------------------------------------------------------
IsSectionComplete(e) == e.type = "section_complete"

\* the 'section_complete' events operation k has sent
Completions(k) == SelectSeq(ops[k].events, IsSectionComplete)

\* operation k has returned after one 'section_complete', its last event
EndedWithOne(k) ==
  /\ Len(Completions(k)) = 1
  /\ ops[k].events[Len(ops[k].events)] = Completions(k)[1]
  /\ Completions(k)[1].result.success \in BOOLEAN

C35_Request(k) ==
  LET op == ops[k]
      done == op.pc = "done"
  IN  /\ ~done => Completions(k) = <<>>
      /\ done => EndedWithOne(k)
      /\ op.message = "no_fields" =>
           /\ op.model_calls = 0 /\ op.search_calls = 0
           /\ done => /\ ~Completions(k)[1].result.success
                       /\ Len(op.events) = 1
      /\ (done /\ op.failed # "none") =>
           /\ ~Completions(k)[1].result.success
           /\ Completions(k)[1].result.error
                = << "Error regenerating section: ", op.failed >>
           /\ op.failed \in {"setup", "queries", "search", "content"}
      /\ (done /\ op.failed = "none" /\ op.message # "no_fields") =>
           /\ Completions(k)[1].result.success
           /\ op.model_calls = 2 /\ op.search_calls = 1

C35_Requests == frontend = "app" => \A k \in DOMAIN ops : C35_Request(k)

\* C35 (regeneration in app.py): every regenerate_section request ends, and
\* it ends with exactly one 'section_complete' event, its last event, with
\* success true or false; a request whose section_title, feedback or topic
\* is missing or empty ends with success false after no model call and no
\* search call; a request one of whose calls raised ends with success false
\* and the error of that call; a request none of whose calls raised ends
\* with success true.
C35_OneSectionComplete ==
  /\ []C35_Requests
  /\ \A k \in 1..MaxMsgs :
       (frontend = "app" /\ k \in DOMAIN ops)
         ~> (k \in DOMAIN ops /\ ops[k].pc = "done")

\* a request without its fields and a request whose search call raised have
\* both ended
C35_Witness ==
  /\ frontend = "app"
  /\ \E j, k \in DOMAIN ops :
       /\ ops[j].pc = "done" /\ ops[j].message = "no_fields"
       /\ ops[k].pc = "done" /\ ops[k].failed = "search"

-----------------------------------------------------------------------------
\* the queries, of those searched, whose search returned
Kept(searched) ==
  LET F[i \in 0..Len(searched)] ==
        IF i = 0 THEN <<>>
        ELSE IF searched[i] THEN Append(F[i - 1], i) ELSE F[i - 1]
  IN  F[Len(searched)]

C36_Searches(k) ==
  LET op == ops[k]
      done == op.pc = "done"
  IN  /\ op.queries <= 2
      /\ Len(op.searched) <= op.queries
      /\ op.search_calls = Len(op.searched)
      /\ op.search_results = Kept(op.searched)
      /\ op.failed # "search"
      /\ ~done => Completions(k) = <<>>
      /\ done => EndedWithOne(k)
      /\ (done /\ RESEARCH_AVAILABLE /\ op.failed = "none") =>
           /\ Completions(k)[1].result.success
           /\ Len(op.searched) = op.queries
           /\ op.model_calls = 2

\* C36 as stated (search failures in real_research_app.regenerate_section):
\* at most 2 queries are searched, a search that fails is skipped and the
\* results of the others are kept, the content call is still made and the
\* request ends with one 'section_complete' with success true; success is
\* false only when a model call failed.
C36_OnlyModelFailure ==
  frontend = "real" =>
    \A k \in DOMAIN ops :
      /\ C36_Searches(k)
      /\ (ops[k].pc = "done" /\ ~Completions(k)[1].result.success)
           => ops[k].failed = "model"

C36_Failures ==
  frontend = "real" =>
    \A k \in DOMAIN ops :
      /\ C36_Searches(k)
      /\ (ops[k].pc = "done" /\ ~Completions(k)[1].result.success) =>
           \/ /\ ~RESEARCH_AVAILABLE
              /\ Completions(k)[1].result.error = "Research modules not available"
              /\ ops[k].model_calls = 0 /\ ops[k].search_calls = 0
           \/ /\ ops[k].failed \in {"clients", "model"}
              /\ Completions(k)[1].result.error = ops[k].failed

\* C36 amended: at most 2 queries are searched, a search that fails is
\* skipped and the results of the others are kept, and when the research
\* modules are available, the clients were constructed and no model call
\* failed, the content call is made and the request ends with one
\* 'section_complete' with success true, also when every search failed;
\* every request ends with one 'section_complete', and success is false
\* only when the research modules are not available, the construction of
\* the clients raised, or a model call failed.
C36_SearchFailuresSkipped ==
  /\ []C36_Failures
  /\ \A k \in 1..MaxMsgs :
       (frontend = "real" /\ k \in DOMAIN ops)
         ~> (k \in DOMAIN ops /\ ops[k].pc = "done")

\* a regeneration both of whose searches failed has ended with success true
C36_Witness ==
  /\ frontend = "real"
  /\ \E k \in DOMAIN ops :
       /\ ops[k].pc = "done"
       /\ ops[k].searched = << FALSE, FALSE >>
       /\ ops[k].model_calls = 2
       /\ Completions(k)[1].result.success

-----------------------------------------------------------------------------
\* step and progress of the events simulate_research is to send, in order
ExpectedSimulation ==
  << << "initializing", 0 >>, << "planning", 15 >>,
     << "planning_complete", 25 >>, << "query_generation", 35 >>,
     << "researching", 50 >>, << "writing", 75 >>, << "finalizing", 90 >>,
     << "complete", 100 >> >>

\* step and progress of the events operation k has sent
SentBy(k) ==
  [i \in 1..Len(ops[k].events) |->
     << ops[k].events[i].step, ops[k].events[i].progress >>]

IsComplete(e) == e.type = "complete"

C37_Simulation(k) ==
  LET events == ops[k].events
  IN  /\ ops[k].kind = "simulation"
      /\ Len(events) <= Len(ExpectedSimulation)
      /\ SentBy(k) = SubSeq(ExpectedSimulation, 1, Len(events))
      /\ \A i, j \in DOMAIN events :
           i < j => events[i].progress < events[j].progress
      /\ ops[k].pc = "done" <=> Len(events) = Len(ExpectedSimulation)
      /\ Len(SelectSeq(events, IsComplete)) = IF ops[k].pc = "done" THEN 1 ELSE 0

C37_Simulations == frontend = "demo" => \A k \in DOMAIN ops : C37_Simulation(k)

C37_Started ==
  (frontend = "demo" /\ ops' # ops /\ Len(ops') # Len(ops)) =>
    /\ Len(ops') = Len(ops) + 1
      /\ ops'[Len(ops')].events = <<>>
    /\ ops'[Len(ops')].pc = "running"
    /\ \A k \in DOMAIN ops : ops'[k] = ops[k]
    /\ handlers' = handlers

\* C37 (simulations of simple_web_demo.py): a start_research message starts
\* one simulation and leaves the handler receiving; what a simulation has
\* sent is at every moment a prefix of initializing 0, planning 15,
\* planning_complete 25, query_generation 35, researching 50, writing 75,
\* finalizing 90, complete 100, with strictly increasing progress; it has
\* ended exactly when it has sent all eight, one 'complete' among them; and
\* every simulation ends, whatever other simulations run on the session and
\* however their events interleave.
C37_FixedSequence ==
  /\ []C37_Simulations
  /\ [][C37_Started]_vars
  /\ \A k \in 1..MaxMsgs :
       (frontend = "demo" /\ k \in DOMAIN ops)
         ~> (k \in DOMAIN ops /\ ops[k].pc = "done")

\* two simulations of one connection whose events interleaved: the one
\* started later has ended, the one started first has sent some of its
\* events and not all
C37_Witness ==
  /\ frontend = "demo"
  /\ \E j, k \in DOMAIN ops :
       /\ k < j
       /\ ops[j].conn = ops[k].conn
       /\ ops[j].pc = "done"
       /\ ops[k].pc = "running"
       /\ Len(ops[k].events) \in 1..7

====
